---- MODULE Spec2Model ----
(***************************************************************************)
(* The cross-thread invocation pipeline of the ClickHouse lambda adapter   *)
(* (programs/lambda): the handler thread (mainEntryClickHouseLambda,       *)
(* lambdaHandler, LambdaServerCommunicator) and the worker thread          *)
(* (lambdaServerThreadFunction, LambdaServer::main, runQueryLoop,          *)
(* LambdaHandlerCommunicator) joined by two ConcurrentBoundedQueues.       *)
(*                                                                         *)
(* Representation.  Format names and inline input are TLA+ strings, ""     *)
(* being the empty std::string.  Output bytes and messages are sequences   *)
(* of tokens, <<>> being the empty std::string, so that text built from    *)
(* parts (a prefix and an exception text) stays a value that can be        *)
(* inspected.  A query text is represented by the facts the client code    *)
(* reads from its parse tree.                                              *)
(***************************************************************************)
EXTENDS Integers, Sequences, FiniteSets, TLC

(* Number of invocations the runtime delivers before run_handler returns.  *)
MaxInvocations == 3

(* DB::LambdaCommunicatorContext context(10)                               *)
QueueSize == 10

(***************************************************************************)
(* JSON values: a string value is JStr(s); Absent is a field that is not   *)
(* present in an object.                                                   *)
(***************************************************************************)
Absent == [absent |-> TRUE]

JStr(s) == [str |-> s]

EmptyString == <<>>

(***************************************************************************)
(* struct LambdaQuery.  qid is history: the number of the invocation that  *)
(* created the query.                                                      *)
(***************************************************************************)
LambdaQuery(text, ofmt, ifmt, structure, data) ==
    [query_text |-> text, output_format |-> ofmt, input_format |-> ifmt,
     input_structure |-> structure, input_data |-> data, qid |-> 0]

(***************************************************************************)
(* struct LambdaResult and its two constructors.  of is history: the qid   *)
(* of the query the result was made for (0: made by the handler itself).   *)
(***************************************************************************)
LambdaResultData(format_, data_, of_) ==
    [format |-> format_, data |-> data_, error |-> EmptyString, of |-> of_]

(* Variant: the one-argument constructor initialises data.                 *)
LambdaResultError_AsData(error_, of_) ==
    [format |-> "", data |-> error_, error |-> EmptyString, of |-> of_]

LambdaResultError(error_, of_) ==
    [format |-> "", data |-> EmptyString, error |-> error_, of |-> of_]

(* std::nullopt of std::optional<LambdaResult> / std::optional<LambdaQuery> *)
Nullopt == [nullopt |-> TRUE]

(* The value a function returned to its caller: LambdaServer::main to      *)
(* Application::run, mainEntryClickHouseLambda to the process.             *)
Returned(code) == [code |-> code]

(***************************************************************************)
(* ConcurrentBoundedQueue<T>(max_fill): a queue is the pair of its         *)
(* contents and its is_finished flag.  push/emplace wait while the queue   *)
(* is full and not finished and fail once it is finished; pop waits while  *)
(* it is empty and not finished, and fails when it is finished and empty.  *)
(***************************************************************************)
PushWaits(queue, is_finished) == ~is_finished /\ Len(queue) >= QueueSize

PushSucceeds(queue, is_finished) == ~is_finished /\ Len(queue) < QueueSize

PopWaits(queue, is_finished) == ~is_finished /\ queue = <<>>

PopSucceeds(queue, is_finished) == queue # <<>>

(***************************************************************************)
(* Query texts, by what ClientBase and initOutputFormat see in them:       *)
(*   produces_output  the engine sends at least one data block;            *)
(*   format_clause    ASTQueryWithOutput::format ("" = none);              *)
(*   out_file         ASTQueryWithOutput::out_file;                        *)
(*   vertical         the text ends in \G (has_vertical_output_suffix);    *)
(*   error            the engine fails "none" | "before" any output |      *)
(*                    "after" some output was written.                     *)
(***************************************************************************)
QueryText(name, out, fmt, outfile, vert, err) ==
    [name |-> name, produces_output |-> out, format_clause |-> fmt,
     out_file |-> outfile, vertical |-> vert, error |-> err]

QueryTexts ==
    { QueryText("SELECT 1",                  TRUE,  "",    FALSE, FALSE, "none"),
      QueryText("SELECT a+b FROM table",     TRUE,  "",    FALSE, FALSE, "none"),
      QueryText("CREATE TABLE t",            FALSE, "",    FALSE, FALSE, "none"),
      QueryText("SELECT nonexistent()",      TRUE,  "",    FALSE, FALSE, "before"),
      QueryText("SELECT throwIf(number=1)",  TRUE,  "",    FALSE, FALSE, "after"),
      QueryText("SELECT 1 FORMAT CSV",       TRUE,  "CSV", FALSE, FALSE, "none"),
      QueryText("SELECT 1 INTO OUTFILE 'f'", TRUE,  "",    TRUE,  FALSE, "none"),
      QueryText("SELECT 1 FORMAT CSV\\G",    TRUE,  "CSV", FALSE, TRUE,  "none") }

(***************************************************************************)
(* The clickHouse JSON object of a request: each field is a value or       *)
(* Absent.  The query field holds the query text itself.                   *)
(***************************************************************************)
ClickHouse(query, outputFormat, input) ==
    [query |-> query, outputFormat |-> outputFormat,
     inputFormat |-> input.inputFormat, structure |-> input.structure,
     data |-> input.data]

NoInput == [inputFormat |-> Absent, structure |-> Absent, data |-> Absent]

CsvInput == [inputFormat |-> JStr("CSV"), structure |-> JStr("a Int64, b Int64"),
             data |-> JStr("1,2\n3,4")]

NoStructureInput == [inputFormat |-> JStr("CSV"), structure |-> Absent,
                     data |-> JStr("1,2\n3,4")]

TextNamed(name) == CHOOSE t \in QueryTexts : t.name = name

ClickHouseObjects ==
    { ClickHouse(t, Absent, NoInput) : t \in QueryTexts \cup {Absent} }
    \cup
    { ClickHouse(TextNamed(n), JStr("JSONEachRow"), NoInput) :
        n \in {"SELECT 1", "SELECT 1 FORMAT CSV", "CREATE TABLE t"} }
    \cup
    { ClickHouse(TextNamed(n), Absent, CsvInput) :
        n \in {"SELECT a+b FROM table", "SELECT throwIf(number=1)",
               "CREATE TABLE t"} }
    \cup
    { ClickHouse(TextNamed("SELECT a+b FROM table"), f, NoStructureInput) :
        f \in {Absent} }

(***************************************************************************)
(* A JSON text is either malformed or an object.  The body of a gateway    *)
(* request is a string holding a JSON text, base64-encoded `base64` times. *)
(***************************************************************************)
Malformed == [wellformed |-> FALSE]

JsonObject(httpMethod, requestContext, body, isBase64Encoded, clickHouse) ==
    [wellformed |-> TRUE, httpMethod |-> httpMethod,
     requestContext |-> requestContext, body |-> body,
     isBase64Encoded |-> isBase64Encoded, clickHouse |-> clickHouse]

InnerTexts ==
    {Malformed} \cup
    { JsonObject(Absent, Absent, Absent, Absent, c) :
        c \in ClickHouseObjects \cup {Absent} }

Body(base64, text) == [base64 |-> base64, text |-> text]

(* Gateway requests: every inner text as a plain body, and the base64      *)
(* flag and encoding in every combination for one inner text.              *)
GatewayPayloads ==
    { JsonObject(m, r, Body(0, t), Absent, Absent) :
        m \in {Absent, JStr("POST")}, r \in {Absent, JStr("{...}")},
        t \in InnerTexts }
    \cup
    { JsonObject(m, r, b, e, Absent) :
        m \in {Absent, JStr("POST")}, r \in {Absent, JStr("{...}")},
        b \in { Body(n, JsonObject(Absent, Absent, Absent, Absent,
                         ClickHouse(TextNamed("SELECT 1"), Absent, NoInput))) :
                  n \in {0, 1} } \cup {Absent},
        e \in {Absent, JStr("true"), JStr("false")} }

Payloads == InnerTexts \cup GatewayPayloads

(***************************************************************************)
(* The payloads parseLambdaRequestPayload is examined on by itself: every  *)
(* combination of an httpMethod and a requestContext that is absent, empty *)
(* or not empty, of a body that is absent or a JSON text (malformed,       *)
(* without clickHouse, or a request for "SELECT 1") encoded zero, one or   *)
(* two times, of an isBase64Encoded that is absent or one of six strings,  *)
(* and of a top-level clickHouse object that is absent or a request for    *)
(* another query.                                                          *)
(***************************************************************************)
MaxBase64 == 2

BodyTexts ==
    { Malformed,
      JsonObject(Absent, Absent, Absent, Absent, Absent),
      JsonObject(Absent, Absent, Absent, Absent,
                 ClickHouse(TextNamed("SELECT 1"), Absent, NoInput)) }

ParsePayloads ==
    {Malformed} \cup
    { JsonObject(m, r, b, e, c) :
        m \in {Absent, JStr(""), JStr("POST")},
        r \in {Absent, JStr(""), JStr("{...}")},
        b \in {Absent} \cup
              { Body(n, t) : n \in 0..MaxBase64, t \in BodyTexts },
        e \in {Absent, JStr("true"), JStr("false"), JStr("TRUE"),
               JStr("True"), JStr("1"), JStr("")},
        c \in {Absent,
               ClickHouse(TextNamed("SELECT a+b FROM table"), Absent,
                          CsvInput)} }

(***************************************************************************)
(* Poco::JSON::Object::optValue<std::string>(key, def)                     *)
(***************************************************************************)
optValue(json, key, def) == IF json[key] = Absent THEN def ELSE json[key].str

(***************************************************************************)
(* parseLambdaRequestPayload(payload, context).  The result records the    *)
(* value left in the out-parameter context, whether a Poco::Exception was  *)
(* thrown (what: its text), and the LambdaQuery returned otherwise.        *)
(***************************************************************************)
NoQuery == LambdaQuery(Absent, "", "", "", "")

ParseThrows(context, what) ==
    [exception |-> TRUE, what |-> what, context |-> context, query |-> NoQuery]

ParseClickHouse(json, context) ==
    IF json.clickHouse = Absent
    THEN ParseThrows(context, "Null pointer")
    ELSE IF json.clickHouse.query = Absent
    THEN ParseThrows(context, "Not found: query")
    ELSE [exception |-> FALSE, what |-> "", context |-> context,
          query |-> LambdaQuery(json.clickHouse.query,
                                optValue(json.clickHouse, "outputFormat", ""),
                                optValue(json.clickHouse, "inputFormat", ""),
                                optValue(json.clickHouse, "structure", ""),
                                optValue(json.clickHouse, "data", ""))]

(* Variant: the body is decoded unless isBase64Encoded is "false".         *)
parseLambdaRequestPayload_DecodeUnlessFalse(payload) ==
    IF ~payload.wellformed
    THEN ParseThrows("DIRECT", "JSON syntax error")
    ELSE
    LET http_method == optValue(payload, "httpMethod", "")
        request_context_ == optValue(payload, "requestContext", "")
        context == IF http_method # "" THEN "API_GW_REST"
                   ELSE IF request_context_ # "" THEN "API_GW_HTTP"
                   ELSE "DIRECT"
    IN  IF context = "DIRECT"
        THEN ParseClickHouse(payload, context)
        ELSE IF payload.body = Absent
        THEN ParseThrows(context, "Not found: body")
        ELSE
        LET is_base64_encoded ==
                optValue(payload, "isBase64Encoded", "false") # "false"
        IN  IF is_base64_encoded /\ payload.body.base64 = 0
            THEN ParseThrows(context, "Failed to base64 decode")
            ELSE
            LET body == IF is_base64_encoded
                        THEN [payload.body EXCEPT !.base64 = @ - 1]
                        ELSE payload.body
            IN  IF body.base64 > 0 \/ ~body.text.wellformed
                THEN ParseThrows(context, "JSON syntax error")
                ELSE ParseClickHouse(body.text, context)

(* Variant: requestContext is looked at before httpMethod.                 *)
parseLambdaRequestPayload_ContextFirst(payload) ==
    IF ~payload.wellformed
    THEN ParseThrows("DIRECT", "JSON syntax error")
    ELSE
    LET http_method == optValue(payload, "httpMethod", "")
        request_context_ == optValue(payload, "requestContext", "")
        context == IF request_context_ # "" THEN "API_GW_HTTP"
                   ELSE IF http_method # "" THEN "API_GW_REST"
                   ELSE "DIRECT"
    IN  IF context = "DIRECT"
        THEN ParseClickHouse(payload, context)
        ELSE IF payload.body = Absent
        THEN ParseThrows(context, "Not found: body")
        ELSE
        LET is_base64_encoded ==
                optValue(payload, "isBase64Encoded", "false") = "true"
        IN  IF is_base64_encoded /\ payload.body.base64 = 0
            THEN ParseThrows(context, "Failed to base64 decode")
            ELSE
            LET body == IF is_base64_encoded
                        THEN [payload.body EXCEPT !.base64 = @ - 1]
                        ELSE payload.body
            IN  IF body.base64 > 0 \/ ~body.text.wellformed
                THEN ParseThrows(context, "JSON syntax error")
                ELSE ParseClickHouse(body.text, context)

parseLambdaRequestPayload(payload) ==
    IF ~payload.wellformed
    THEN ParseThrows("DIRECT", "JSON syntax error")
    ELSE
    LET http_method == optValue(payload, "httpMethod", "")
        request_context_ == optValue(payload, "requestContext", "")
        context == IF http_method # "" THEN "API_GW_REST"
                   ELSE IF request_context_ # "" THEN "API_GW_HTTP"
                   ELSE "DIRECT"
    IN  IF context = "DIRECT"
        THEN ParseClickHouse(payload, context)
        ELSE IF payload.body = Absent
        THEN ParseThrows(context, "Not found: body")
        ELSE
        LET is_base64_encoded ==
                optValue(payload, "isBase64Encoded", "false") = "true"
        IN  IF is_base64_encoded /\ payload.body.base64 = 0
            THEN ParseThrows(context, "Failed to base64 decode")
            ELSE
            LET body == IF is_base64_encoded
                        THEN [payload.body EXCEPT !.base64 = @ - 1]
                        ELSE payload.body
            IN  IF body.base64 > 0 \/ ~body.text.wellformed
                THEN ParseThrows(context, "JSON syntax error")
                ELSE ParseClickHouse(body.text, context)

(***************************************************************************)
(* aws::lambda_runtime::invocation_response and the tail of lambdaHandler: *)
(* the JSON document is kept as the object that was stringified.           *)
(***************************************************************************)
NoResponse == [kind |-> "none"]

ResponseSuccess(payload, content_type) ==
    [kind |-> "success", payload |-> payload, content_type |-> content_type]

ResponseFailure(error_msg, error_type) ==
    [kind |-> "failure", error_msg |-> error_msg, error_type |-> error_type]

ResultJson(lambda_result_) ==
    IF lambda_result_.error = EmptyString
    THEN [format |-> lambda_result_.format, data |-> lambda_result_.data]
    ELSE [error |-> lambda_result_.error]

(* Variant: an error result is reported as a runtime-level failure.        *)
EncodeResponse_FailureOnError(lambda_result_, request_context_) ==
    IF lambda_result_ # Nullopt /\ lambda_result_.error = EmptyString
    THEN IF request_context_ = "API_GW_REST"
         THEN ResponseSuccess([body |-> ResultJson(lambda_result_)],
                              "application/json")
         ELSE ResponseSuccess(ResultJson(lambda_result_), "application/json")
    ELSE ResponseFailure("ClickHouse lambda server disconnected", "FAILURE")

(* Variant: both gateway envelopes are wrapped.                            *)
EncodeResponse_WrapGateways(lambda_result_, request_context_) ==
    IF lambda_result_ # Nullopt
    THEN IF request_context_ # "DIRECT"
         THEN ResponseSuccess([body |-> ResultJson(lambda_result_)],
                              "application/json")
         ELSE ResponseSuccess(ResultJson(lambda_result_), "application/json")
    ELSE ResponseFailure("ClickHouse lambda server disconnected", "FAILURE")

EncodeResponse(lambda_result_, request_context_) ==
    IF lambda_result_ # Nullopt
    THEN IF request_context_ = "API_GW_REST"
         THEN ResponseSuccess([body |-> ResultJson(lambda_result_)],
                              "application/json")
         ELSE ResponseSuccess(ResultJson(lambda_result_), "application/json")
    ELSE ResponseFailure("ClickHouse lambda server disconnected", "FAILURE")

(***************************************************************************)
(* LambdaServer::processConfig: format = config "output-format" / "format" *)
(* / "TSV"; the container runs without either option.                      *)
(***************************************************************************)
format == "TSV"

KnownFormats == {"TSV", "CSV", "JSONEachRow", "Vertical"}

(***************************************************************************)
(* BaseExternalTable::parseStructureFromStructureField(structure), called  *)
(* by the constructor of LambdaTable: whether it throws the DB::Exception  *)
(* of a structure that names no column.                                    *)
(***************************************************************************)
parseStructureFromStructureFieldThrows(structure_) == structure_ = ""

(***************************************************************************)
(* LambdaTable::LambdaTable(name, structure, format, data)                 *)
(***************************************************************************)
LambdaTable(name_, structure_, format_, data_) ==
    [name |-> name_, file |-> name_, format |-> format_,
     structure |-> structure_, data |-> data_]

(* Variant: the FORMAT clause of the query is not looked at.               *)
initOutputFormat_IgnoreClause(current_output_format_, parsed_query) ==
    IF parsed_query.out_file
    THEN [throws |-> TRUE,
          message |-> <<"OUTFILE file is not supported in AWS lambda queries">>,
          current_output_format |-> current_output_format_, bound |-> FALSE]
    ELSE
    LET chosen == IF parsed_query.vertical THEN "Vertical"
                  ELSE current_output_format_
    IN  IF chosen \notin KnownFormats
        THEN [throws |-> TRUE, message |-> <<"Unknown format ", chosen>>,
              current_output_format |-> chosen, bound |-> TRUE]
        ELSE [throws |-> FALSE, message |-> EmptyString,
              current_output_format |-> chosen, bound |-> TRUE]

(* Variant: INTO OUTFILE is not looked at, and the query writes to         *)
(* query_response as any other.                                            *)
initOutputFormat_AllowOutfile(current_output_format_, parsed_query) ==
    IF parsed_query.format_clause # "" /\ parsed_query.vertical
    THEN [throws |-> TRUE, message |-> <<"Output format already specified">>,
          current_output_format |-> current_output_format_, bound |-> FALSE]
    ELSE
    LET by_clause == IF parsed_query.format_clause # ""
                     THEN parsed_query.format_clause
                     ELSE current_output_format_
        chosen == IF parsed_query.vertical THEN "Vertical" ELSE by_clause
    IN  IF chosen \notin KnownFormats
        THEN [throws |-> TRUE, message |-> <<"Unknown format ", chosen>>,
              current_output_format |-> chosen, bound |-> TRUE]
        ELSE [throws |-> FALSE, message |-> EmptyString,
              current_output_format |-> chosen, bound |-> TRUE]

(***************************************************************************)
(* LambdaServer::initOutputFormat(block, parsed_query), entered with       *)
(* output_format unset.  Every exception leaves as a LocalFormatError,     *)
(* which is a DB::Exception.  bound: out_file_buf was bound to             *)
(* query_response.                                                         *)
(***************************************************************************)
initOutputFormat(current_output_format_, parsed_query) ==
    IF parsed_query.out_file
    THEN [throws |-> TRUE,
          message |-> <<"OUTFILE file is not supported in AWS lambda queries">>,
          current_output_format |-> current_output_format_, bound |-> FALSE]
    ELSE IF parsed_query.format_clause # "" /\ parsed_query.vertical
    THEN [throws |-> TRUE, message |-> <<"Output format already specified">>,
          current_output_format |-> current_output_format_, bound |-> FALSE]
    ELSE
    LET by_clause == IF parsed_query.format_clause # ""
                     THEN parsed_query.format_clause
                     ELSE current_output_format_
        chosen == IF parsed_query.vertical THEN "Vertical" ELSE by_clause
    IN  IF chosen \notin KnownFormats
        THEN [throws |-> TRUE, message |-> <<"Unknown format ", chosen>>,
              current_output_format |-> chosen, bound |-> TRUE]
        ELSE [throws |-> FALSE, message |-> EmptyString,
              current_output_format |-> chosen, bound |-> TRUE]

(***************************************************************************)
(* ClientBase::processQueryText(text) on the LambdaConnection, as          *)
(* runQueryLoop uses it: the external tables are sent with the query, the  *)
(* engine runs the query, the first data block calls initOutputFormat, the *)
(* blocks are written through out_file_buf over query_response, and an     *)
(* error ends in processError, which rethrows it as a DB::Exception.       *)
(* Returns the exception (if any) and the members the call leaves behind.  *)
(***************************************************************************)
OutputBytes(query_text, format_, tables, part) ==
    << [query |-> query_text.name, format |-> format_,
        table |-> IF tables = <<>> THEN "" ELSE tables[1].data,
        part |-> part] >>

QueryOutcome(exception, message, current_output_format_, query_response_) ==
    [exception |-> exception, message |-> message,
     current_output_format |-> current_output_format_,
     query_response |-> query_response_]

processQueryText(query_text, tables, current_output_format_, query_response_) ==
    IF query_text.error = "before"
    THEN QueryOutcome("db", <<"Code: 46. DB::Exception: ", query_text.name>>,
                      current_output_format_, query_response_)
    ELSE IF ~query_text.produces_output
    THEN QueryOutcome("none", EmptyString,
                      current_output_format_, query_response_)
    ELSE
    LET out == initOutputFormat(current_output_format_, query_text)
    IN  IF out.throws
        THEN QueryOutcome("db", <<"Code: 48. DB::Exception: ">> \o out.message,
                          out.current_output_format,
                          IF out.bound THEN EmptyString ELSE query_response_)
        ELSE IF query_text.error = "after"
        THEN QueryOutcome("db",
                 <<"Code: 395. DB::Exception: ", query_text.name>>,
                 out.current_output_format,
                 OutputBytes(query_text, out.current_output_format, tables,
                             "partial"))
        ELSE QueryOutcome("none", EmptyString, out.current_output_format,
                 OutputBytes(query_text, out.current_output_format, tables,
                             "all"))

(***************************************************************************)
(* The envelope of a request as the gateways define it, read off the       *)
(* payload alone: a REST gateway event has httpMethod, an HTTP gateway     *)
(* event has requestContext and no httpMethod, anything else is direct.    *)
(***************************************************************************)
EnvelopeOf(payload) ==
    IF ~payload.wellformed THEN "malformed"
    ELSE IF payload.httpMethod # Absent THEN "rest"
    ELSE IF payload.requestContext # Absent THEN "http"
    ELSE "direct"

(***************************************************************************)
(* State.                                                                  *)
(***************************************************************************)
VARIABLES
    query_queue,            \* LambdaCommunicatorContext::query_queue
    query_finished,         \*   its is_finished
    response_queue,         \* LambdaCommunicatorContext::response_queue
    response_finished,      \*   its is_finished
    dpc,                    \* main thread: where it is
    request_context,        \* lambdaHandler: request_context
    lambda_query,           \* lambdaHandler: lambda_query
    lambda_result,          \* lambdaHandler: lambda_result, at its return
    response,               \* the invocation_response last returned
    invocations,            \* history: invocations started
    inv_pushed,             \* history: queries pushed by this invocation
    inv_popped,             \* history: results popped by this invocation
    inv_how,                \* history: how this invocation ended
    envelope,               \* history: the shape of this invocation's payload
    wpc,                    \* worker thread: where it is
    w_query,                \* runQueryLoop: query
    w_result,               \* runQueryLoop: the LambdaResult being pushed
    external_tables,        \* ClientBase::external_tables
    current_output_format,  \* ClientBase::current_output_format
    query_response,         \* LambdaServer::query_response
    w_pushed,               \* history: results pushed for w_query
    w_cause,                \* history: why the worker left its loop
    w_errors,               \* history: the worker answered with an error
    cleanups,               \* history: calls of LambdaServer::cleanup
    main_rc,                \* the value LambdaServer::main returned
    exit_code,              \* the value mainEntryClickHouseLambda returned
    payload_in,             \* parseLambdaRequestPayload alone: its payload
    parsed_out,             \* parseLambdaRequestPayload alone: its outcome
    spc,                    \* LambdaServer::main alone: where it is
    config,                 \*   config() of the application
    directories,            \*   the directories that exist
    settings,               \*   the settings of global_context
    global_context,         \*   ClientBase::global_context is set
    connection,             \*   ClientBase::connection is set
    status,                 \*   LambdaServer::status is set
    temporary_directory_to_delete, \* the member of LambdaServer
    created_directory,      \*   history: tryInitPath created DefaultPath
    removals,               \*   history: calls of remove_all
    s_exception,            \*   the exception main's handler caught
    s_cleanups,             \*   history: calls of cleanup()
    s_failure,              \*   history: the step of cleanup() that failed
    s_rc,                   \*   the value main returned
    cache_input,            \* the cache sizes alone: what they come from
    cache_sizes,            \*   the sizes handed to the engine
    send_query_parameters,  \* LambdaConnection alone: the deferred slot
    external_tables_data,   \*   the other deferred slot
    conn_inv,               \*   history: call sequences of the client
    cpc,                    \*   the client: where it is
    q_calls,                \*   history: calls of sendQuery
    t_calls,                \*   history: calls of sendExternalTablesData
    conn_executions,        \*   history: calls of LocalConnection::sendQuery
    last_execution,         \*   history: the last of them
    conn_result,            \*   history: how the last call ended
    rpc,                    \* RabbitMQBlockInputStream alone: where it is
    buffer,                 \*   the read buffer of the stream
    finished,               \*   the stream has read
    pool,                   \*   the buffers the storage holds
    messages,               \*   the messages the buffer received
    channel_usable,         \*   the channel of the buffer works
    r_streams,              \*   history: streams constructed
    r_calls,                \*   history: calls of readImpl
    r_buffer_calls,         \*   history: those made with a buffer
    r_reads,                \*   history: messages taken from the buffer
    r_block,                \*   history: what the last readImpl returned
    r_tracker,              \*   history: its updates of the ack tracker
    r_pops,                 \*   history: buffers taken from the storage
    r_pushes,               \*   history: calls of pushReadBuffer
    r_acks,                 \*   history: calls of ackMessages
    r_ack                   \*   history: the last sendAck

vars == <<query_queue, query_finished, response_queue, response_finished,
          dpc, request_context, lambda_query, lambda_result, response,
          invocations, inv_pushed, inv_popped, inv_how, envelope,
          wpc, w_query, w_result, external_tables, current_output_format,
          query_response, w_pushed, w_cause, w_errors, cleanups,
          main_rc, exit_code, payload_in, parsed_out,
          spc, config, directories, settings, global_context, connection,
          status, temporary_directory_to_delete, created_directory,
          removals, s_exception, s_cleanups, s_failure, s_rc,
          cache_input, cache_sizes,
          send_query_parameters, external_tables_data, conn_inv, cpc,
          q_calls, t_calls, conn_executions, last_execution, conn_result,
          rpc, buffer, finished, pool, messages, channel_usable, r_streams,
          r_calls, r_buffer_calls, r_reads, r_block, r_tracker, r_pops,
          r_pushes, r_acks, r_ack>>

parse_vars == <<payload_in, parsed_out>>

(***************************************************************************)
(* LambdaServer::main by itself: the startup of the engine, the query      *)
(* loop as one step, cleanup() and the return.                             *)
(*                                                                         *)
(* Settings of the global context: of the settings the two that            *)
(* applySettingsOverridesForLambda sets are kept.  A SettingsChanges names *)
(* some settings and gives each of them a value; Unchanged stands for a    *)
(* setting it does not name.                                               *)
(***************************************************************************)
Unchanged == [unchanged |-> TRUE]

Change(value) == [value |-> value]

Settings(introspection, read_method) ==
    [allow_introspection_functions |-> introspection,
     storage_file_read_method |-> read_method]

LocalFSReadMethods == {"pread", "mmap"}

SettingsValues ==
    {Settings(introspection, read_method) :
        introspection \in BOOLEAN, read_method \in LocalFSReadMethods}

SettingsChangesValues ==
    [allow_introspection_functions :
         {Unchanged} \cup {Change(b) : b \in BOOLEAN},
     storage_file_read_method :
         {Unchanged} \cup {Change(m) : m \in LocalFSReadMethods}]

NoChanges ==
    [allow_introspection_functions |-> Unchanged,
     storage_file_read_method |-> Unchanged]

(* context->applySettingsChanges(changes): every setting the changes name  *)
(* takes the value they give, the others keep theirs.                      *)
applySettingsChanges(settings_, changes) ==
    Settings(IF changes.allow_introspection_functions = Unchanged
             THEN settings_.allow_introspection_functions
             ELSE changes.allow_introspection_functions.value,
             IF changes.storage_file_read_method = Unchanged
             THEN settings_.storage_file_read_method
             ELSE changes.storage_file_read_method.value)

(* applySettingsOverridesForLambda                                         *)
applySettingsOverridesForLambda(settings_) ==
    [settings_ EXCEPT !.allow_introspection_functions = TRUE,
                      !.storage_file_read_method = "mmap"]

(* cmd_settings.changes(): the settings given on the command line.         *)
(* mainEntryClickHouseLambda starts the thread function with argc = 1, so  *)
(* app.init sees the executable path only and no setting is given.         *)
cmd_settings == NoChanges

(* global_context->setDefaultProfiles(config()): "Load global settings     *)
(* from default_profile and system_profile."  The settings the profile of  *)
(* the users configuration names are applied to the context.               *)
setDefaultProfiles(settings_, config_) ==
    applySettingsChanges(settings_, config_.default_profile)

(* processConfig: applySettingsOverridesForLambda(global_context);         *)
(*                applyCmdOptions(global_context);                         *)
(*                global_context->setDefaultProfiles(config());            *)
processConfigSettings(settings_, config_) ==
    setDefaultProfiles(
        applySettingsChanges(applySettingsOverridesForLambda(settings_),
                             cmd_settings),
        config_)

(* The configuration the process starts with (config.xml of the working    *)
(* directory and the users configuration it names): path is absent, blank  *)
(* after trimming, or the name of a directory; default_profile holds the   *)
(* settings of the default profile.                                        *)
Configurations ==
    [path : {"absent", "blank", "given"},
     default_profile : SettingsChangesValues]

(* The directories of this model: the one tryInitPath makes up in the      *)
(* temporary directory, and the one the configuration names.               *)
DefaultPath == "clickhouse-lambda-pid-time-seed"

UserPath == "path"

Path(name) == [path |-> name]

(* An exception on its way to the handlers of main.                        *)
Thrown(kind, code) == [kind |-> kind, code |-> code]

(* Error codes: BAD_ARGUMENTS; 0 and BAD_ARGUMENTS stand for the codes a   *)
(* DB::Exception of the startup carries; getCurrentExceptionCode() gives   *)
(* POCO_EXCEPTION and STD_EXCEPTION for exceptions of other kinds.         *)
BAD_ARGUMENTS == 36

StartupErrorCodes == {0, BAD_ARGUMENTS}

POCO_EXCEPTION == 1000

STD_EXCEPTION == 1001

(* LambdaServer::main: return Application::EXIT_OK, or what its handlers   *)
(* return: e.code() ? e.code() : -1, getCurrentExceptionCode().            *)
MainReturnCode(exception) ==
    IF exception = Nullopt THEN 0
    ELSE IF exception.kind = "db"
         THEN IF exception.code # 0 THEN exception.code ELSE -1
         ELSE exception.code

(* The steps of cleanup() that can fail.                                   *)
TeardownFailures == {"none", "shutdown", "remove_all"}

(* Variant: cleanup() without its try block.                               *)
cleanup_NoCatch(members, failure) ==
    IF members.global_context /\ failure = "shutdown"
    THEN [members EXCEPT !.connection = FALSE, !.thrown = TRUE]
    ELSE LET released == [members EXCEPT !.connection = FALSE,
                                         !.global_context = FALSE,
                                         !.status = FALSE]
         IN  IF members.temporary_directory_to_delete = Nullopt
             THEN released
             ELSE LET dir == members.temporary_directory_to_delete.path
                  IN  [released EXCEPT
                          !.temporary_directory_to_delete = Nullopt,
                          !.removals = @ + 1,
                          !.directories =
                              IF failure = "remove_all" THEN @
                              ELSE @ \ {dir},
                          !.thrown = (failure = "remove_all")]

(***************************************************************************)
(* LambdaServer::cleanup() on the members it releases, the directories of  *)
(* the file system and the count of remove_all calls.  One try block holds *)
(* all steps: connection.reset(); global_context->shutdown() and           *)
(* global_context.reset() if there is a context; status.reset(); and, if   *)
(* temporary_directory_to_delete is set, it is reset first and the         *)
(* directory removed then.  A step that throws ends the try block:         *)
(* catch (...) logs the exception, and the steps after it are not run.     *)
(***************************************************************************)
cleanup(members, failure) ==
    IF members.global_context /\ failure = "shutdown"
    THEN [members EXCEPT !.connection = FALSE]
    ELSE LET released == [members EXCEPT !.connection = FALSE,
                                         !.global_context = FALSE,
                                         !.status = FALSE]
         IN  IF members.temporary_directory_to_delete = Nullopt
             THEN released
             ELSE LET dir == members.temporary_directory_to_delete.path
                  IN  [released EXCEPT
                          !.temporary_directory_to_delete = Nullopt,
                          !.removals = @ + 1,
                          !.directories =
                              IF failure = "remove_all" THEN @
                              ELSE @ \ {dir}]

(***************************************************************************)
(* The sizes of the caches in processConfig, by themselves.                *)
(*                                                                         *)
(* A CacheInput holds what the sizes are computed from: the physical       *)
(* memory getMemoryAmount() gives, cache_size_to_ram_max_ratio as the      *)
(* fraction ratio_num / ratio_den, and for each cache the size the         *)
(* configuration gives (its value, or the default of the build).  The      *)
(* ratio is not negative and the product fits size_t: outside of that the  *)
(* conversion of the product to size_t is undefined.                       *)
(***************************************************************************)
CacheNames ==
    {"uncompressed", "mark", "index_uncompressed", "index_mark", "mmap"}

MemoryAmounts == {5, 8}

CacheRatios == {<<0, 1>>, <<1, 2>>, <<3, 2>>}

ConfiguredCacheSizes == {0, 2, 3}

CacheInputs ==
    [physical_server_memory : MemoryAmounts,
     cache_size_to_ram_max_ratio : CacheRatios,
     sizes : [CacheNames -> ConfiguredCacheSizes]]

(* The configuration all caches of which are empty.                        *)
NoCaches ==
    [physical_server_memory |-> 5,
     cache_size_to_ram_max_ratio |-> <<1, 2>>,
     sizes |-> [name \in CacheNames |-> 0]]

(* max_cache_size = static_cast<size_t>(physical_server_memory *           *)
(*                                      cache_size_to_ram_max_ratio)       *)
max_cache_size(input) ==
    (input.physical_server_memory * input.cache_size_to_ram_max_ratio[1])
        \div input.cache_size_to_ram_max_ratio[2]

(* Variant: the sizes are handed on as configured.                         *)
loweredCacheSize_AsConfigured(size, max_size) == size

(* if (size > max_cache_size) size = max_cache_size;                       *)
loweredCacheSize(size, max_size) ==
    IF size > max_size THEN max_size ELSE size

(* The sizes handed to setUncompressedCache, setMarkCache,                 *)
(* setIndexUncompressedCache, setIndexMarkCache and setMMappedFileCache.   *)
setCaches(input) ==
    [name \in CacheNames |->
        loweredCacheSize(input.sizes[name], max_cache_size(input))]

cache_vars == <<cache_input, cache_sizes>>

(***************************************************************************)
(* LambdaConnection by itself.                                             *)
(*                                                                         *)
(* The two deferred slots hold what sendQuery and sendExternalTablesData   *)
(* were called with.  inv is history: the number of the call sequence of   *)
(* the client that stored the value.  An ExternalTablesData is a sequence  *)
(* of tables, each with its name and the number of rows its pipe gives.    *)
(***************************************************************************)
MaxCalls == 4

SendQueryParameters(query, inv) == [query |-> query, inv |-> inv]

ExternalTablesData(tables, inv) == [tables |-> tables, inv |-> inv]

ConnectionQueries == {"SELECT 1", "SELECT a+b FROM table"}

ExternalTablesDataValues ==
    {<<>>,
     <<[table_name |-> "table", rows |-> 2]>>,
     <<[table_name |-> "table", rows |-> 2],
       [table_name |-> "other", rows |-> 1]>>}

(* How an execution goes: to its end; the pipe of table number table       *)
(* throws after loaded rows were written; the engine throws in the query.  *)
ExecutionOutcomes ==
    {[kind |-> "ok", table |-> 0, loaded |-> 0],
     [kind |-> "query_throws", table |-> 0, loaded |-> 0]}
    \cup {[kind |-> "pipe_throws", table |-> i, loaded |-> k] :
             i \in 1..2, k \in 0..1}

(* DeferredParameters::isReady                                             *)
isReady(send_query_parameters_, external_tables_data_) ==
    /\ send_query_parameters_ # Nullopt
    /\ external_tables_data_ # Nullopt

(* Variant: the tables are registered, their pipes are not executed.       *)
createExternalTables_NoFill(tables, outcome) ==
    [context_tables |->
         [i \in 1..Len(tables) |->
             [table_name |-> tables[i].table_name,
              rows_loaded |-> 0, rows |-> tables[i].rows]],
     threw |-> FALSE]

(***************************************************************************)
(* LambdaConnection::createExternalTables: for every table of              *)
(* deferred_parameters.external_tables_data, in order, a temporary table   *)
(* is added to query_context under table_name and the pipe of the table is *)
(* executed into it to the end.  A pipe that throws ends the function: its *)
(* table stays with the rows written so far, the tables after it are not   *)
(* reached.  The result is the tables of query_context, and whether an     *)
(* exception left the function.                                            *)
(***************************************************************************)
createExternalTables(tables, outcome) ==
    LET fails == /\ outcome.kind = "pipe_throws"
                 /\ outcome.table \in 1..Len(tables)
                 /\ outcome.loaded < tables[outcome.table].rows
        reached == IF fails THEN outcome.table ELSE Len(tables)
    IN  [context_tables |->
             [i \in 1..reached |->
                 [table_name |-> tables[i].table_name,
                  rows_loaded |-> IF fails /\ i = outcome.table
                                  THEN outcome.loaded
                                  ELSE tables[i].rows,
                  rows |-> tables[i].rows]],
         threw |-> fails]

(***************************************************************************)
(* LocalConnection::sendQuery as LambdaConnection uses it: the query       *)
(* context is made, createExternalTables() is called, and the query text   *)
(* is executed by the engine unless createExternalTables threw.  The       *)
(* result is the execution as the engine saw it, and the exception that    *)
(* left the function ("none": it returned).                                *)
(***************************************************************************)
LocalConnection_sendQuery(parameters, data, at, outcome) ==
    LET created == createExternalTables(data.tables, outcome)
    IN  [query |-> parameters.query,
         query_inv |-> parameters.inv,
         tables_inv |-> data.inv,
         at_inv |-> at,
         data_tables |-> data.tables,
         context_tables |-> created.context_tables,
         text_executed |-> ~created.threw,
         threw |-> IF created.threw THEN "pipe_exception"
                   ELSE IF outcome.kind = "query_throws"
                        THEN "query_exception"
                        ELSE "none"]

(* What a call of sendQuery or sendExternalTablesData gave its caller.     *)
CallResult(call, forwarded, rethrown) ==
    [call |-> call, forwarded |-> forwarded, rethrown |-> rethrown]

(* Variant: executeDeferredQuery without its catch block.                  *)
executeDeferredQuery_NoCatch(call, at, parameters, data, outcome) ==
    LET execution ==
            LocalConnection_sendQuery(parameters, data, at, outcome)
    IN  /\ last_execution' = execution
        /\ conn_executions' = conn_executions + 1
        /\ IF execution.threw = "none"
           THEN /\ send_query_parameters' = Nullopt
                /\ external_tables_data' = Nullopt
           ELSE /\ send_query_parameters' = parameters
                /\ external_tables_data' = data
        /\ conn_result' = CallResult(call, TRUE, execution.threw)

(***************************************************************************)
(* LambdaConnection::executeDeferredQuery, with the slots as the calling   *)
(* method has just set them: LocalConnection::sendQuery is called with the *)
(* stored parameters; deferred_parameters.cleanup() follows when it        *)
(* returned, and in catch (...), before throw;, when it threw.  at is      *)
(* history: the call sequence of the client the execution happens in.      *)
(***************************************************************************)
executeDeferredQuery(call, at, parameters, data, outcome) ==
    LET execution ==
            LocalConnection_sendQuery(parameters, data, at, outcome)
    IN  /\ last_execution' = execution
        /\ conn_executions' = conn_executions + 1
        /\ send_query_parameters' = Nullopt
        /\ external_tables_data' = Nullopt
        /\ conn_result' = CallResult(call, TRUE, execution.threw)

(* Variant: sendQuery forwards the query at once.                          *)
sendQuery_Immediate(query, inv, outcome) ==
    /\ q_calls' = q_calls + 1
    /\ executeDeferredQuery("sendQuery", inv,
           SendQueryParameters(query, inv),
           IF external_tables_data = Nullopt
           THEN ExternalTablesData(<<>>, inv)
           ELSE external_tables_data,
           outcome)
    /\ UNCHANGED t_calls

(* Variant: sendQuery keeps the parameters that are stored already.        *)
sendQuery_KeepsStored(query, inv, outcome) ==
    LET parameters == IF send_query_parameters = Nullopt
                      THEN SendQueryParameters(query, inv)
                      ELSE send_query_parameters
    IN  /\ q_calls' = q_calls + 1
        /\ IF isReady(parameters, external_tables_data)
           THEN executeDeferredQuery("sendQuery", inv, parameters,
                                     external_tables_data, outcome)
           ELSE /\ send_query_parameters' = parameters
                /\ conn_result' = CallResult("sendQuery", FALSE, "none")
                /\ UNCHANGED <<external_tables_data, last_execution,
                               conn_executions>>
        /\ UNCHANGED t_calls

(* LambdaConnection::sendQuery: send_query_parameters.emplace(...);        *)
(*     if (deferred_parameters.isReady()) executeDeferredQuery();          *)
sendQuery(query, inv, outcome) ==
    LET parameters == SendQueryParameters(query, inv)
    IN  /\ q_calls' = q_calls + 1
        /\ IF isReady(parameters, external_tables_data)
           THEN executeDeferredQuery("sendQuery", inv, parameters,
                                     external_tables_data, outcome)
           ELSE /\ send_query_parameters' = parameters
                /\ conn_result' = CallResult("sendQuery", FALSE, "none")
                /\ UNCHANGED <<external_tables_data, last_execution,
                               conn_executions>>
        /\ UNCHANGED t_calls

(* LambdaConnection::sendExternalTablesData:                               *)
(*     external_tables_data = std::move(external_tables_data);             *)
(*     if (deferred_parameters.isReady()) executeDeferredQuery();          *)
sendExternalTablesData(tables, inv, outcome) ==
    LET data == ExternalTablesData(tables, inv)
    IN  /\ t_calls' = t_calls + 1
        /\ IF isReady(send_query_parameters, data)
           THEN executeDeferredQuery("sendExternalTablesData", inv,
                                     send_query_parameters, data, outcome)
           ELSE /\ external_tables_data' = data
                /\ conn_result' =
                       CallResult("sendExternalTablesData", FALSE, "none")
                /\ UNCHANGED <<send_query_parameters, last_execution,
                               conn_executions>>
        /\ UNCHANGED q_calls

connection_vars == <<send_query_parameters, external_tables_data, conn_inv,
                     cpc, q_calls, t_calls, conn_executions, last_execution,
                     conn_result>>

(* A connection nothing was sent on.                                       *)
ConnectionStart ==
    /\ send_query_parameters = Nullopt
    /\ external_tables_data = Nullopt
    /\ conn_inv = 0
    /\ cpc = "idle"
    /\ q_calls = 0
    /\ t_calls = 0
    /\ conn_executions = 0
    /\ last_execution = Nullopt
    /\ conn_result = Nullopt

(***************************************************************************)
(* RabbitMQBlockInputStream by itself.                                     *)
(*                                                                         *)
(* The storage keeps the read buffers that are not in use; a buffer holds  *)
(* the messages it received and has not handed out.  A message is its      *)
(* delivery tag, its redelivered flag, its id and the number of rows the   *)
(* input format parses from it.                                            *)
(***************************************************************************)
MaxMessages == 2

MaxStreams == 2

MaxReads == 2

Message(delivery_tag, rows, redelivered) ==
    [delivery_tag |-> delivery_tag, rows |-> rows,
     redelivered |-> redelivered, message_id |-> 100 + delivery_tag]

(* The queues a buffer can hold: delivery tags count up from 1.            *)
ReceivedQueues ==
    UNION {{[i \in 1..n |-> Message(i, rows[i], redelivered[i])] :
                rows \in [1..n -> {0, 1, 2}],
                redelivered \in [1..n -> BOOLEAN]} : n \in 0..MaxMessages}

VirtualNames == {"_exchange_name", "_channel_id", "_delivery_tag",
                 "_redelivered", "_message_id"}

(* The value readImpl inserts into a virtual column for a message.         *)
VirtualValue(name, message, channel_id) ==
    CASE name = "_exchange_name" -> 0
      [] name = "_channel_id"    -> channel_id
      [] name = "_delivery_tag"  -> message.delivery_tag
      [] name = "_redelivered"   -> IF message.redelivered THEN 1 ELSE 0
      [] name = "_message_id"    -> message.message_id

(* Block(): no column, no row.                                             *)
EmptyBlock == [rows |-> 0, virtual_columns |-> <<>>]

(* An exception left readImpl.                                             *)
ReadThrown == [rows |-> -1, virtual_columns |-> <<>>]

(* result_columns after the messages were read: every chunk of every       *)
(* message is appended, so the rows are the rows of all messages.          *)
RECURSIVE ResultRows(_)
ResultRows(read) ==
    IF read = <<>> THEN 0
    ELSE read[1].rows + ResultRows(Tail(read))

(* Variant: the value of a message is inserted once.                       *)
insertVirtual_Once(name, message, new_rows, channel_id) ==
    <<VirtualValue(name, message, channel_id)>>

(* for (size_t i = 0; i < new_rows; ++i) virtual_columns[..]->insert(..)   *)
insertVirtual(name, message, new_rows, channel_id) ==
    [i \in 1..new_rows |-> VirtualValue(name, message, channel_id)]

(* A virtual column after the messages were read: the values of every      *)
(* message that gave rows are inserted.                                    *)
RECURSIVE VirtualColumn(_, _, _)
VirtualColumn(name, read, channel_id) ==
    IF read = <<>> THEN <<>>
    ELSE (IF read[1].rows > 0
          THEN insertVirtual(name, read[1], read[1].rows, channel_id)
          ELSE <<>>)
         \o VirtualColumn(name, Tail(read), channel_id)

(* The calls of buffer->updateAckTracker({delivery_tag, channel_id}).      *)
RECURSIVE AckTrackerUpdates(_, _)
AckTrackerUpdates(read, channel_id) ==
    IF read = <<>> THEN <<>>
    ELSE (IF read[1].rows > 0
          THEN <<<<read[1].delivery_tag, channel_id>>>>
          ELSE <<>>)
         \o AckTrackerUpdates(Tail(read), channel_id)

(* The messages the loop of readImpl takes: it ends when the buffer is at  *)
(* its end or, after limit messages, when queueEmpty() holds or the time   *)
(* limit is exceeded; throws_at is the message whose parsing throws (0:    *)
(* none).                                                                  *)
MessagesTaken(queue, limit, throws_at) ==
    LET n == IF limit < Len(queue) THEN limit ELSE Len(queue)
    IN  IF throws_at \in 1..n THEN throws_at ELSE n

(* Variant: readImpl does not set finished.                                *)
readImpl_Repeats(limit, throws_at) ==
    /\ r_calls' = r_calls + 1
    /\ IF buffer = Nullopt
       THEN /\ r_block' = EmptyBlock
            /\ r_tracker' = <<>>
            /\ UNCHANGED <<finished, messages, r_reads, r_buffer_calls>>
       ELSE LET taken == MessagesTaken(messages, limit, throws_at)
                thrown == throws_at \in 1..taken
                read == SubSeq(messages, 1,
                               IF thrown THEN taken - 1 ELSE taken)
                total_rows == ResultRows(read)
            IN  /\ UNCHANGED finished
                /\ r_buffer_calls' = r_buffer_calls + 1
                /\ messages' = SubSeq(messages, taken + 1, Len(messages))
                /\ r_reads' = r_reads + taken
                /\ r_tracker' = AckTrackerUpdates(read, buffer.channel_id)
                /\ r_block' =
                       IF thrown THEN ReadThrown
                       ELSE IF total_rows = 0 THEN EmptyBlock
                       ELSE [rows |-> total_rows,
                             virtual_columns |->
                                 [name \in VirtualNames |->
                                     VirtualColumn(name, read,
                                                   buffer.channel_id)]]

(***************************************************************************)
(* RabbitMQBlockInputStream::readImpl.  r_calls, r_buffer_calls, r_reads,  *)
(* r_tracker and r_block are history: the calls, the calls made with a     *)
(* buffer, the messages taken from the buffer, the updates of the ack      *)
(* tracker by the last call, and what the last call returned.              *)
(***************************************************************************)
readImpl(limit, throws_at) ==
    /\ r_calls' = r_calls + 1
    /\ IF buffer = Nullopt \/ finished
       THEN /\ r_block' = EmptyBlock
            /\ r_tracker' = <<>>
            /\ r_buffer_calls' =
                   r_buffer_calls + (IF buffer = Nullopt THEN 0 ELSE 1)
            /\ UNCHANGED <<finished, messages, r_reads>>
       ELSE LET taken == MessagesTaken(messages, limit, throws_at)
                thrown == throws_at \in 1..taken
                read == SubSeq(messages, 1,
                               IF thrown THEN taken - 1 ELSE taken)
                total_rows == ResultRows(read)
            IN  /\ finished' = TRUE
                /\ r_buffer_calls' = r_buffer_calls + 1
                /\ messages' = SubSeq(messages, taken + 1, Len(messages))
                /\ r_reads' = r_reads + taken
                /\ r_tracker' = AckTrackerUpdates(read, buffer.channel_id)
                /\ r_block' =
                       IF thrown THEN ReadThrown
                       ELSE IF total_rows = 0 THEN EmptyBlock
                       ELSE [rows |-> total_rows,
                             virtual_columns |->
                                 [name \in VirtualNames |->
                                     VirtualColumn(name, read,
                                                   buffer.channel_id)]]

(* RabbitMQBlockInputStream::readPrefixImpl: storage.popReadBuffer gives   *)
(* a buffer that is not in use, or nullptr when there is none in time.     *)
readPrefixImpl(popped) ==
    /\ buffer' = popped
    /\ IF popped = Nullopt
       THEN UNCHANGED <<pool, r_pops>>
       ELSE /\ pool' = pool \ {popped.channel_id}
            /\ r_pops' = r_pops + 1

(* Variant: the destructor pushes whatever buffer holds.                   *)
Destructor_NoCheck ==
    /\ r_pushes' = r_pushes + 1
    /\ pool' = IF buffer = Nullopt THEN pool
               ELSE pool \cup {buffer.channel_id}

(* RabbitMQBlockInputStream::~RabbitMQBlockInputStream                     *)
Destructor ==
    IF buffer = Nullopt
    THEN UNCHANGED <<pool, r_pushes>>
    ELSE /\ r_pushes' = r_pushes + 1
         /\ pool' = pool \cup {buffer.channel_id}

(* RabbitMQBlockInputStream::sendAck; ack_messages is what                 *)
(* buffer->ackMessages() returns.  r_acks counts its calls, r_ack is what  *)
(* the last sendAck found and did.                                         *)
sendAck(ack_messages) ==
    LET acknowledges == buffer # Nullopt /\ channel_usable
    IN  /\ r_acks' = r_acks + (IF acknowledges THEN 1 ELSE 0)
        /\ r_ack' = [had_buffer |-> buffer # Nullopt,
                     usable |-> channel_usable,
                     acknowledged |-> acknowledges,
                     returned |-> acknowledges /\ ack_messages]

rabbit_vars == <<rpc, buffer, finished, pool, messages, channel_usable,
                 r_streams, r_calls, r_buffer_calls, r_reads, r_block,
                 r_tracker, r_pops, r_pushes, r_acks, r_ack>>

(* A stream that was constructed, and a storage with no buffer.            *)
RabbitStart ==
    /\ rpc = "constructed"
    /\ buffer = Nullopt
    /\ finished = FALSE
    /\ pool = {}
    /\ messages = <<>>
    /\ channel_usable = TRUE
    /\ r_streams = 1
    /\ r_calls = 0
    /\ r_buffer_calls = 0
    /\ r_reads = 0
    /\ r_block = Nullopt
    /\ r_tracker = <<>>
    /\ r_pops = 0
    /\ r_pushes = 0
    /\ r_acks = 0
    /\ r_ack = Nullopt

component_vars == <<cache_vars, connection_vars, rabbit_vars>>

server_vars == <<spc, config, directories, settings, global_context,
                 connection, status, temporary_directory_to_delete,
                 created_directory, removals, s_exception, s_cleanups,
                 s_failure, s_rc>>

(* The members of LambdaServer that cleanup() works on.                    *)
Members ==
    [connection |-> connection, global_context |-> global_context,
     status |-> status,
     temporary_directory_to_delete |-> temporary_directory_to_delete,
     directories |-> directories, removals |-> removals, thrown |-> FALSE]

(* A process at the entry of LambdaServer::main.                           *)
ServerStart(config_, directories_) ==
    /\ spc = "main"
    /\ config = config_
    /\ directories = directories_
    /\ settings = Nullopt
    /\ global_context = FALSE
    /\ connection = FALSE
    /\ status = FALSE
    /\ temporary_directory_to_delete = Nullopt
    /\ created_directory = FALSE
    /\ removals = 0
    /\ s_exception = Nullopt
    /\ s_cleanups = 0
    /\ s_failure = "none"
    /\ s_rc = Nullopt

(* The configuration of a container without config.xml.                    *)
NoConfiguration == [path |-> "absent", default_profile |-> NoChanges]

pipeline_vars == <<query_queue, query_finished, response_queue,
                   response_finished, dpc, request_context, lambda_query,
                   lambda_result, response, invocations, inv_pushed,
                   inv_popped, inv_how, envelope, wpc, w_query, w_result,
                   external_tables, current_output_format, query_response,
                   w_pushed, w_cause, w_errors, cleanups, main_rc,
                   exit_code>>

(* What the actions of another component leave unchanged.                 *)
outside_cache == <<pipeline_vars, parse_vars, server_vars, connection_vars,
                   rabbit_vars>>

outside_connection == <<pipeline_vars, parse_vars, server_vars, cache_vars,
                        rabbit_vars>>

outside_rabbit == <<pipeline_vars, parse_vars, server_vars, cache_vars,
                    connection_vars>>

handler_vars == <<dpc, request_context, lambda_query, lambda_result, response,
                  invocations, inv_pushed, inv_popped, inv_how, envelope,
                  exit_code, parse_vars, server_vars,
                  component_vars>>

worker_vars == <<wpc, w_query, w_result, external_tables,
                 current_output_format, query_response, w_pushed, w_cause,
                 w_errors, cleanups, main_rc, parse_vars, server_vars,
                 component_vars>>

queue_vars == <<query_queue, query_finished, response_queue,
                response_finished>>

(***************************************************************************)
(* mainEntryClickHouseLambda up to run_handler: the queues are empty and   *)
(* open, the worker thread has been started, no invocation has arrived.    *)
(***************************************************************************)
InitPipeline ==
    /\ query_queue = <<>>
    /\ query_finished = FALSE
    /\ response_queue = <<>>
    /\ response_finished = FALSE
    /\ dpc = "run_handler"
    /\ request_context = "DIRECT"
    /\ lambda_query = NoQuery
    /\ lambda_result = Nullopt
    /\ response = NoResponse
    /\ invocations = 0
    /\ inv_pushed = 0
    /\ inv_popped = 0
    /\ inv_how = "none"
    /\ envelope = "none"
    /\ wpc = "init"
    /\ w_query = Nullopt
    /\ w_result = Nullopt
    /\ external_tables = <<>>
    /\ current_output_format = ""
    /\ query_response = EmptyString
    /\ w_pushed = 0
    /\ w_cause = "running"
    /\ w_errors = FALSE
    /\ cleanups = 0
    /\ main_rc = Nullopt
    /\ exit_code = Nullopt

Init ==
    /\ InitPipeline
    /\ payload_in = Malformed
    /\ parsed_out = Nullopt
    /\ ServerStart(NoConfiguration, {})
    /\ cache_input = NoCaches
    /\ cache_sizes = Nullopt
    /\ ConnectionStart
    /\ RabbitStart

(***************************************************************************)
(* parseLambdaRequestPayload by itself: it is applied to one payload after *)
(* another, and nothing else runs.                                         *)
(***************************************************************************)
ParseInit ==
    /\ InitPipeline
    /\ payload_in = Malformed
    /\ parsed_out = Nullopt
    /\ ServerStart(NoConfiguration, {})
    /\ cache_input = NoCaches
    /\ cache_sizes = Nullopt
    /\ ConnectionStart
    /\ RabbitStart

ParsePayload ==
    /\ parsed_out = Nullopt
    /\ parsed_out' = parseLambdaRequestPayload(payload_in)
    /\ UNCHANGED <<payload_in, pipeline_vars, server_vars,
                   component_vars>>

NextPayload(payload) ==
    /\ parsed_out # Nullopt
    /\ payload_in' = payload
    /\ parsed_out' = Nullopt
    /\ UNCHANGED <<pipeline_vars, server_vars, component_vars>>

ParseNext ==
    \/ ParsePayload
    \/ \E payload \in ParsePayloads : NextPayload(payload)

ParseSpec == ParseInit /\ [][ParseNext]_vars

(***************************************************************************)
(* Main thread.                                                            *)
(*                                                                         *)
(* dpc: "run_handler"   in aws::lambda_runtime::run_handler, between two   *)
(*                      invocations;                                       *)
(*      "push", "pop"   in lambdaHandler, inside executeQuery, before the  *)
(*                      push of the query / the pop of the result;         *)
(*      "post"          lambdaHandler has returned its response, which the *)
(*                      runtime is posting;                                *)
(*      "close_query", "close_response"  in server_communicator.close();   *)
(*      "join"          in server_thread.join();                           *)
(*      "returned"      mainEntryClickHouseLambda has returned.            *)
(***************************************************************************)
HandlerReturns(lambda_result_, request_context_, how) ==
    /\ lambda_result' = lambda_result_
    /\ response' = EncodeResponse(lambda_result_, request_context_)
    /\ inv_how' = how
    /\ dpc' = "post"

(* Variant: the catch block of lambdaHandler keeps the text of the         *)
(* Poco::Exception alone as the error.                                     *)
Invoke_ErrorTextOnly(payload) ==
    /\ dpc = "run_handler"
    /\ invocations < MaxInvocations
    /\ invocations' = invocations + 1
    /\ envelope' = EnvelopeOf(payload)
    /\ LET parsed == parseLambdaRequestPayload(payload)
       IN  /\ request_context' = parsed.context
           /\ IF parsed.exception
              THEN /\ lambda_query' = NoQuery
                   /\ HandlerReturns(
                          LambdaResultError(<<parsed.what>>, 0),
                          parsed.context, "decode_error")
              ELSE /\ lambda_query' =
                          [parsed.query EXCEPT !.qid = invocations + 1]
                   /\ dpc' = "push"
                   /\ UNCHANGED <<lambda_result, response, inv_how>>
    /\ UNCHANGED <<queue_vars, worker_vars, inv_pushed, inv_popped,
                   exit_code>>

(* lambdaHandler, from its entry to the push in executeQuery.              *)
Invoke(payload) ==
    /\ dpc = "run_handler"
    /\ invocations < MaxInvocations
    /\ invocations' = invocations + 1
    /\ envelope' = EnvelopeOf(payload)
    /\ LET parsed == parseLambdaRequestPayload(payload)
       IN  /\ request_context' = parsed.context
           /\ IF parsed.exception
              THEN /\ lambda_query' = NoQuery
                   /\ HandlerReturns(
                          LambdaResultError(
                              <<"Failed to parse lambda input JSON: ",
                                parsed.what>>, 0),
                          parsed.context, "decode_error")
              ELSE /\ lambda_query' =
                          [parsed.query EXCEPT !.qid = invocations + 1]
                   /\ dpc' = "push"
                   /\ UNCHANGED <<lambda_result, response, inv_how>>
    /\ UNCHANGED <<queue_vars, worker_vars, inv_pushed, inv_popped,
                   exit_code>>

(* LambdaServerCommunicator::executeQuery: query_queue.push(std::move(..)) *)
ExecuteQueryPush ==
    /\ dpc = "push"
    /\ ~PushWaits(query_queue, query_finished)
    /\ IF PushSucceeds(query_queue, query_finished)
       THEN /\ query_queue' = Append(query_queue, lambda_query)
            /\ lambda_query' = NoQuery
            /\ inv_pushed' = inv_pushed + 1
            /\ dpc' = "pop"
            /\ UNCHANGED <<lambda_result, response, inv_how>>
       ELSE /\ HandlerReturns(Nullopt, request_context, "push_failed")
            /\ UNCHANGED <<query_queue, lambda_query, inv_pushed>>
    /\ UNCHANGED <<query_finished, response_queue, response_finished,
                   request_context, invocations, inv_popped, envelope,
                   exit_code,
                   worker_vars>>

(* Variant: the pop does not wait for the worker (a tryPop).               *)
ExecuteQueryPop_NoWait ==
    /\ dpc = "pop"
    /\ IF PopSucceeds(response_queue, response_finished)
       THEN /\ response_queue' = Tail(response_queue)
            /\ inv_popped' = inv_popped + 1
            /\ HandlerReturns(Head(response_queue), request_context, "result")
       ELSE /\ HandlerReturns(Nullopt, request_context, "pop_failed")
            /\ UNCHANGED <<response_queue, inv_popped>>
    /\ UNCHANGED <<query_queue, query_finished, response_finished,
                   request_context, lambda_query, invocations, inv_pushed,
                   envelope, exit_code, worker_vars>>

(* LambdaServerCommunicator::executeQuery: response_queue.pop, and the     *)
(* rest of lambdaHandler.                                                  *)
ExecuteQueryPop ==
    /\ dpc = "pop"
    /\ ~PopWaits(response_queue, response_finished)
    /\ IF PopSucceeds(response_queue, response_finished)
       THEN /\ response_queue' = Tail(response_queue)
            /\ inv_popped' = inv_popped + 1
            /\ HandlerReturns(Head(response_queue), request_context, "result")
       ELSE /\ HandlerReturns(Nullopt, request_context, "pop_failed")
            /\ UNCHANGED <<response_queue, inv_popped>>
    /\ UNCHANGED <<query_queue, query_finished, response_finished,
                   request_context, lambda_query, invocations, inv_pushed,
                   envelope, exit_code, worker_vars>>

(* run_handler posts the response of the handler and asks for the next     *)
(* invocation; the objects of the finished call are gone.                  *)
PostResponse ==
    /\ dpc = "post"
    /\ dpc' = "run_handler"
    /\ request_context' = "DIRECT"
    /\ lambda_query' = NoQuery
    /\ lambda_result' = Nullopt
    /\ response' = NoResponse
    /\ inv_pushed' = 0
    /\ inv_popped' = 0
    /\ inv_how' = "none"
    /\ envelope' = "none"
    /\ UNCHANGED <<queue_vars, worker_vars, invocations, exit_code>>

(* run_handler returns: the runtime stops delivering invocations.          *)
RunHandlerReturns ==
    /\ dpc = "run_handler"
    /\ dpc' = "close_query"
    /\ UNCHANGED <<queue_vars, worker_vars, request_context, lambda_query,
                   lambda_result, response, invocations, inv_pushed,
                   inv_popped, inv_how, envelope, exit_code>>

(* Variant: close() of the dispatcher's side finishes the response queue   *)
(* only.                                                                   *)
ServerCommunicatorClose_ResponseOnly ==
    /\ \/ /\ dpc = "close_query"
          /\ dpc' = "close_response"
          /\ UNCHANGED <<query_finished, response_finished>>
       \/ /\ dpc = "close_response"
          /\ response_finished' = TRUE
          /\ dpc' = "join"
          /\ UNCHANGED query_finished
    /\ UNCHANGED <<query_queue, response_queue, worker_vars, request_context,
                   lambda_query, lambda_result, response, invocations,
                   inv_pushed, inv_popped, inv_how, envelope, exit_code>>

(* LambdaServerCommunicator::close                                         *)
ServerCommunicatorClose ==
    /\ \/ /\ dpc = "close_query"
          /\ query_finished' = TRUE
          /\ dpc' = "close_response"
          /\ UNCHANGED response_finished
       \/ /\ dpc = "close_response"
          /\ response_finished' = TRUE
          /\ dpc' = "join"
          /\ UNCHANGED query_finished
    /\ UNCHANGED <<query_queue, response_queue, worker_vars, request_context,
                   lambda_query, lambda_result, response, invocations,
                   inv_pushed, inv_popped, inv_how, envelope, exit_code>>

(* Variant: the main thread does not wait for the worker thread.           *)
Join_NoWait ==
    /\ dpc = "join"
    /\ dpc' = "returned"
    /\ exit_code' = Returned(0)
    /\ UNCHANGED <<queue_vars, worker_vars, request_context, lambda_query,
                   lambda_result, response, invocations, inv_pushed,
                   inv_popped, inv_how, envelope>>

(* server_thread.join(); return 0                                          *)
Join ==
    /\ dpc = "join"
    /\ wpc = "done"
    /\ dpc' = "returned"
    /\ exit_code' = Returned(0)
    /\ UNCHANGED <<queue_vars, worker_vars, request_context, lambda_query,
                   lambda_result, response, invocations, inv_pushed,
                   inv_popped, inv_how, envelope>>

(***************************************************************************)
(* Worker thread.                                                          *)
(*                                                                         *)
(* wpc: "init"          lambdaServerThreadFunction: app.init and the part  *)
(*                      of LambdaServer::main before runQueryLoop;         *)
(*      "popQuery"      runQueryLoop, in lambda_communicator.popQuery();   *)
(*      "process"       runQueryLoop, a query was popped;                  *)
(*      "pushResponse"  runQueryLoop, in pushResponse of the try block;    *)
(*      "pushError"     runQueryLoop, in pushResponse of the catch block;  *)
(*      "cleanup"       LambdaServer::main, before cleanup();              *)
(*      "dtor_query", "dtor_response"  ~LambdaServer, in close();          *)
(*      "done"          the thread function has returned.                  *)
(***************************************************************************)

(***************************************************************************)
(* Exceptions in the worker thread.  An exception is a DB::Exception       *)
(* ("db") or anything else ("other": std::exception, Poco::Exception).     *)
(* It unwinds through the catch clauses around the place that threw it:    *)
(* runQueryLoop's catch (const Exception &), the handlers of the           *)
(* function-try-block of LambdaServer::main, the handlers of               *)
(* lambdaServerThreadFunction.  An exception none of them catches leaves   *)
(* the thread function, which is std::terminate.                           *)
(***************************************************************************)
ExceptionKinds == {"db", "other"}

(* runQueryLoop: catch (const Exception & e)                               *)
RunQueryLoopCatches(kind) == kind = "db"

(* LambdaServer::main: catch (const DB::Exception & e), catch (...)        *)
MainCatches(kind) == kind \in {"db", "other"}

(* Variant: lambdaServerThreadFunction has the first handler only.         *)
ThreadFunctionCatches_DBOnly(kind) == kind = "db"

(* lambdaServerThreadFunction: catch (const DB::Exception &), catch (...)  *)
ThreadFunctionCatches(kind) == kind \in {"db", "other"}

(* Thrown by app.init or passed on by app.run: app is destroyed            *)
(* (~LambdaServer), then the handler is entered.                           *)
ThreadLanding(kind) ==
    IF ThreadFunctionCatches(kind) THEN "dtor_query" ELSE "terminate"

(* Thrown inside LambdaServer::main outside runQueryLoop's try block.      *)
MainLanding(kind) ==
    IF MainCatches(kind) THEN "cleanup" ELSE ThreadLanding(kind)

(* Thrown inside the try block of runQueryLoop.                            *)
LoopLanding(kind) ==
    IF RunQueryLoopCatches(kind) THEN "pushError" ELSE MainLanding(kind)

(* Variant: the LambdaServer object is not destroyed when app.init throws. *)
WorkerInit_NoClose(outcome) ==
    /\ wpc = "init"
    /\ \/ /\ outcome = "ok"
          /\ wpc' = "popQuery"
          /\ UNCHANGED w_cause
       \/ /\ outcome = "init_throws"
          /\ wpc' = "done"
          /\ w_cause' = "init"
       \/ /\ outcome = "main_throws"
          /\ wpc' = "cleanup"
          /\ w_cause' = "init"
    /\ UNCHANGED <<queue_vars, handler_vars, w_query, w_result,
                   external_tables, current_output_format, query_response,
                   w_pushed, w_errors, cleanups, main_rc>>

(* Variant: the queries pushed while the engine starts are dropped.        *)
WorkerInit_DropsPending(outcome) ==
    /\ wpc = "init"
    /\ \/ /\ outcome = "ok"
          /\ wpc' = "popQuery"
          /\ UNCHANGED w_cause
       \/ /\ outcome = "init_throws"
          /\ \E kind \in ExceptionKinds : wpc' = ThreadLanding(kind)
          /\ w_cause' = "init"
       \/ /\ outcome = "main_throws"
          /\ \E kind \in ExceptionKinds : wpc' = MainLanding(kind)
          /\ w_cause' = "init"
    /\ query_queue' = <<>>
    /\ UNCHANGED <<query_finished, response_queue, response_finished,
                   handler_vars, w_query, w_result, external_tables,
                   current_output_format, query_response, w_pushed,
                   w_errors, cleanups, main_rc>>

(* app.init(argc, argv) and LambdaServer::main up to connect().  An        *)
(* exception of app.init unwinds through ~LambdaServer; an exception in    *)
(* main is caught by main, which calls cleanup().                          *)
WorkerInit(outcome) ==
    /\ wpc = "init"
    /\ \/ /\ outcome = "ok"
          /\ wpc' = "popQuery"
          /\ UNCHANGED w_cause
       \/ /\ outcome = "init_throws"
          /\ \E kind \in ExceptionKinds : wpc' = ThreadLanding(kind)
          /\ w_cause' = "init"
       \/ /\ outcome = "main_throws"
          /\ \E kind \in ExceptionKinds : wpc' = MainLanding(kind)
          /\ w_cause' = "init"
    /\ UNCHANGED <<queue_vars, handler_vars, w_query, w_result,
                   external_tables, current_output_format, query_response,
                   w_pushed, w_errors, cleanups, main_rc>>

(* Variant: popQuery reads the front of the query queue and leaves it      *)
(* there.                                                                  *)
WorkerPopQuery_Peek ==
    /\ wpc = "popQuery"
    /\ ~PopWaits(query_queue, query_finished)
    /\ IF PopSucceeds(query_queue, query_finished)
       THEN /\ w_query' = Head(query_queue)
            /\ w_pushed' = 0
            /\ wpc' = "process"
            /\ UNCHANGED w_cause
       ELSE /\ w_query' = Nullopt
            /\ wpc' = "cleanup"
            /\ w_cause' = "pop_failed"
            /\ UNCHANGED w_pushed
    /\ UNCHANGED <<query_queue, query_finished, response_queue,
                   response_finished, handler_vars, w_result,
                   external_tables, current_output_format, query_response,
                   w_errors, cleanups, main_rc>>

(* runQueryLoop: auto query = lambda_communicator.popQuery();              *)
(*               if (!query) break;                                        *)
WorkerPopQuery ==
    /\ wpc = "popQuery"
    /\ ~PopWaits(query_queue, query_finished)
    /\ IF PopSucceeds(query_queue, query_finished)
       THEN /\ w_query' = Head(query_queue)
            /\ query_queue' = Tail(query_queue)
            /\ w_pushed' = 0
            /\ wpc' = "process"
            /\ UNCHANGED w_cause
       ELSE /\ w_query' = Nullopt
            /\ wpc' = "cleanup"
            /\ w_cause' = "pop_failed"
            /\ UNCHANGED <<query_queue, w_pushed>>
    /\ UNCHANGED <<query_finished, response_queue, response_finished,
                   handler_vars, w_result, external_tables,
                   current_output_format, query_response, w_errors,
                   cleanups, main_rc>>

(* Variant: a request without output_format keeps the format of the query  *)
(* before it.                                                              *)
RequestOutputFormat_KeepsLast(query) ==
    IF query.output_format # "" THEN query.output_format
    ELSE current_output_format

(* runQueryLoop: current_output_format = !query->output_format.empty() ?   *)
(*                   query->output_format : format;                        *)
RequestOutputFormat(query) ==
    IF query.output_format # "" THEN query.output_format ELSE format

(* Variant: the table is built only when the request gives a structure.    *)
WorkerProcess_SkipTable(other_exception) ==
    /\ wpc = "process"
    /\ LET table_throws == FALSE
           tables ==
               IF w_query.input_data # "" /\ w_query.input_structure # ""
               THEN Append(external_tables,
                           LambdaTable("table", w_query.input_structure,
                                       w_query.input_format,
                                       w_query.input_data))
               ELSE external_tables
           chosen == IF table_throws THEN current_output_format
                     ELSE RequestOutputFormat(w_query)
           outcome ==
               IF table_throws
               THEN QueryOutcome("db",
                        <<"Code: 36. DB::Exception: ",
                          "Error while parsing table structure">>,
                        current_output_format, query_response)
               ELSE processQueryText(w_query.query_text, tables, chosen,
                                     query_response)
       IN  /\ external_tables' = tables
           /\ IF other_exception
              THEN /\ current_output_format' = chosen
                   /\ wpc' = "cleanup"
                   /\ w_cause' = "exception"
                   /\ w_query' = Nullopt
                   /\ UNCHANGED <<w_result, query_response>>
              ELSE /\ current_output_format' = outcome.current_output_format
                   /\ UNCHANGED <<w_cause, w_query>>
                   /\ IF outcome.exception = "none"
                      THEN /\ w_result' =
                                LambdaResultData(outcome.current_output_format,
                                                 outcome.query_response,
                                                 w_query.qid)
                           /\ query_response' = EmptyString
                           /\ wpc' = "pushResponse"
                      ELSE /\ w_result' =
                                LambdaResultError(outcome.message, w_query.qid)
                           /\ query_response' = outcome.query_response
                           /\ wpc' = "pushError"
    /\ UNCHANGED <<queue_vars, handler_vars, w_pushed, w_errors, cleanups,
                   main_rc>>

(* runQueryLoop: the try block up to pushResponse, and the construction of *)
(* the LambdaResult of either pushResponse.  The constructor of the        *)
(* LambdaTable may throw before the table is appended and before           *)
(* current_output_format is assigned.  other_exception: an exception that  *)
(* is not a DB::Exception is thrown inside the try block; it leaves        *)
(* runQueryLoop and is caught by catch (...) of LambdaServer::main.        *)
WorkerProcess(other_exception) ==
    /\ wpc = "process"
    /\ LET table_throws ==
               /\ w_query.input_data # ""
               /\ parseStructureFromStructureFieldThrows(
                      w_query.input_structure)
           tables ==
               IF w_query.input_data # "" /\ ~table_throws
               THEN Append(external_tables,
                           LambdaTable("table", w_query.input_structure,
                                       w_query.input_format,
                                       w_query.input_data))
               ELSE external_tables
           chosen == IF table_throws THEN current_output_format
                     ELSE RequestOutputFormat(w_query)
           outcome ==
               IF table_throws
               THEN QueryOutcome("db",
                        <<"Code: 36. DB::Exception: ",
                          "Error while parsing table structure">>,
                        current_output_format, query_response)
               ELSE processQueryText(w_query.query_text, tables, chosen,
                                     query_response)
       IN  /\ external_tables' = tables
           /\ IF other_exception
              THEN /\ current_output_format' = chosen
                   /\ wpc' = LoopLanding("other")
                   /\ w_cause' = "exception"
                   /\ w_query' = Nullopt
                   /\ UNCHANGED <<w_result, query_response>>
              ELSE /\ current_output_format' = outcome.current_output_format
                   /\ UNCHANGED <<w_cause, w_query>>
                   /\ IF outcome.exception = "none"
                      THEN /\ w_result' =
                                LambdaResultData(outcome.current_output_format,
                                                 outcome.query_response,
                                                 w_query.qid)
                           /\ query_response' = EmptyString
                           /\ wpc' = "pushResponse"
                      ELSE /\ w_result' =
                                LambdaResultError(outcome.message, w_query.qid)
                           /\ query_response' = outcome.query_response
                           /\ wpc' = LoopLanding(outcome.exception)
    /\ UNCHANGED <<queue_vars, handler_vars, w_pushed, w_errors, cleanups,
                   main_rc>>

(* Variant: a failed push of a result does not leave the loop.             *)
WorkerPushResponse_NoBreak ==
    /\ wpc = "pushResponse"
    /\ ~PushWaits(response_queue, response_finished)
    /\ IF PushSucceeds(response_queue, response_finished)
       THEN /\ response_queue' = Append(response_queue, w_result)
            /\ w_pushed' = w_pushed + 1
            /\ external_tables' = <<>>
       ELSE UNCHANGED <<response_queue, w_pushed, external_tables>>
    /\ wpc' = "popQuery"
    /\ w_query' = Nullopt
    /\ w_result' = Nullopt
    /\ UNCHANGED <<query_queue, query_finished, response_finished,
                   handler_vars, current_output_format, query_response,
                   w_cause, w_errors, cleanups, main_rc>>

(* runQueryLoop: if (!lambda_communicator.pushResponse(...)) break;        *)
(*               external_tables.clear();                                  *)
WorkerPushResponse ==
    /\ wpc = "pushResponse"
    /\ ~PushWaits(response_queue, response_finished)
    /\ IF PushSucceeds(response_queue, response_finished)
       THEN /\ response_queue' = Append(response_queue, w_result)
            /\ w_pushed' = w_pushed + 1
            /\ external_tables' = <<>>
            /\ wpc' = "popQuery"
            /\ UNCHANGED w_cause
       ELSE /\ wpc' = "cleanup"
            /\ w_cause' = "push_failed"
            /\ UNCHANGED <<response_queue, w_pushed, external_tables>>
    /\ w_query' = Nullopt
    /\ w_result' = Nullopt
    /\ UNCHANGED <<query_queue, query_finished, response_finished,
                   handler_vars, current_output_format, query_response,
                   w_errors, cleanups, main_rc>>

(* Variant: after the catch block the result of the try block is pushed    *)
(* as well.                                                                *)
WorkerPushError_Twice ==
    /\ wpc = "pushError"
    /\ ~PushWaits(response_queue, response_finished)
    /\ IF PushSucceeds(response_queue, response_finished)
       THEN /\ response_queue' =
                   Append(Append(response_queue, w_result),
                          LambdaResultData(current_output_format,
                                           query_response, w_query.qid))
            /\ w_pushed' = w_pushed + 2
       ELSE UNCHANGED <<response_queue, w_pushed>>
    /\ external_tables' = <<>>
    /\ wpc' = "popQuery"
    /\ w_errors' = TRUE
    /\ w_query' = Nullopt
    /\ w_result' = Nullopt
    /\ UNCHANGED <<query_queue, query_finished, response_finished,
                   handler_vars, current_output_format, query_response,
                   w_cause, cleanups, main_rc>>

(* Variant: the catch block leaves the loop.                               *)
WorkerPushError_Break ==
    /\ wpc = "pushError"
    /\ ~PushWaits(response_queue, response_finished)
    /\ IF PushSucceeds(response_queue, response_finished)
       THEN /\ response_queue' = Append(response_queue, w_result)
            /\ w_pushed' = w_pushed + 1
       ELSE UNCHANGED <<response_queue, w_pushed>>
    /\ wpc' = "cleanup"
    /\ w_cause' = "push_failed"
    /\ w_errors' = TRUE
    /\ w_query' = Nullopt
    /\ w_result' = Nullopt
    /\ UNCHANGED <<query_queue, query_finished, response_finished,
                   handler_vars, external_tables, current_output_format,
                   query_response, cleanups, main_rc>>

(* Variant: external_tables.clear() is the last statement of the try       *)
(* block, so the catch block leaves the tables of the failed query.        *)
WorkerPushError_NoClear ==
    /\ wpc = "pushError"
    /\ ~PushWaits(response_queue, response_finished)
    /\ IF PushSucceeds(response_queue, response_finished)
       THEN /\ response_queue' = Append(response_queue, w_result)
            /\ w_pushed' = w_pushed + 1
       ELSE UNCHANGED <<response_queue, w_pushed>>
    /\ wpc' = "popQuery"
    /\ w_errors' = TRUE
    /\ w_query' = Nullopt
    /\ w_result' = Nullopt
    /\ UNCHANGED <<query_queue, query_finished, response_finished,
                   handler_vars, external_tables, current_output_format,
                   query_response, w_cause, cleanups, main_rc>>

(* runQueryLoop: catch (const Exception & e) { pushResponse(...); }        *)
(*               external_tables.clear();                                  *)
WorkerPushError ==
    /\ wpc = "pushError"
    /\ ~PushWaits(response_queue, response_finished)
    /\ IF PushSucceeds(response_queue, response_finished)
       THEN /\ response_queue' = Append(response_queue, w_result)
            /\ w_pushed' = w_pushed + 1
       ELSE UNCHANGED <<response_queue, w_pushed>>
    /\ external_tables' = <<>>
    /\ wpc' = "popQuery"
    /\ w_errors' = TRUE
    /\ w_query' = Nullopt
    /\ w_result' = Nullopt
    /\ UNCHANGED <<query_queue, query_finished, response_finished,
                   handler_vars, current_output_format, query_response,
                   w_cause, cleanups, main_rc>>

(* LambdaServer::main: what it returns after cleanup().  Leaving           *)
(* runQueryLoop normally: Application::EXIT_OK.  catch (const              *)
(* DB::Exception & e): e.code() ? e.code() : -1, for the codes an          *)
(* exception of the startup can carry (0 and BAD_ARGUMENTS stand for       *)
(* them).  catch (...): getCurrentExceptionCode(), which is                *)
(* STD_EXCEPTION for a std::exception that is not a DB::Exception.         *)
MainReturnValues(cause) ==
    IF cause = "init" THEN {-1, 36, 1001}
    ELSE IF cause = "exception" THEN {1001}
    ELSE {0}

(* LambdaServer::main: cleanup(); return                                   *)
WorkerCleanup ==
    /\ wpc = "cleanup"
    /\ cleanups' = cleanups + 1
    /\ \E code \in MainReturnValues(w_cause) : main_rc' = Returned(code)
    /\ wpc' = "dtor_query"
    /\ UNCHANGED <<queue_vars, handler_vars, w_query, w_result,
                   external_tables, current_output_format, query_response,
                   w_pushed, w_cause, w_errors>>

(* Variant: close() finishes the query queue only.                         *)
HandlerCommunicatorClose_QueryOnly ==
    /\ \/ /\ wpc = "dtor_query"
          /\ query_finished' = TRUE
          /\ wpc' = "dtor_response"
          /\ UNCHANGED response_finished
       \/ /\ wpc = "dtor_response"
          /\ wpc' = "done"
          /\ UNCHANGED <<query_finished, response_finished>>
    /\ UNCHANGED <<query_queue, response_queue, handler_vars, w_query,
                   w_result, external_tables, current_output_format,
                   query_response, w_pushed, w_cause, w_errors, cleanups,
                   main_rc>>

(* ~LambdaServer: lambda_communicator.close(), that is                     *)
(* LambdaHandlerCommunicator::close; then the thread function returns.     *)
HandlerCommunicatorClose ==
    /\ \/ /\ wpc = "dtor_query"
          /\ query_finished' = TRUE
          /\ wpc' = "dtor_response"
          /\ UNCHANGED response_finished
       \/ /\ wpc = "dtor_response"
          /\ response_finished' = TRUE
          /\ wpc' = "done"
          /\ UNCHANGED query_finished
    /\ UNCHANGED <<query_queue, response_queue, handler_vars, w_query,
                   w_result, external_tables, current_output_format,
                   query_response, w_pushed, w_cause, w_errors, cleanups,
                   main_rc>>

Next ==
    \/ \E payload \in Payloads : Invoke(payload)
    \/ ExecuteQueryPush
    \/ ExecuteQueryPop
    \/ PostResponse
    \/ RunHandlerReturns
    \/ ServerCommunicatorClose
    \/ Join
    \/ \E outcome \in {"ok", "init_throws", "main_throws"} : WorkerInit(outcome)
    \/ WorkerPopQuery
    \/ \E other_exception \in BOOLEAN : WorkerProcess(other_exception)
    \/ WorkerPushResponse
    \/ WorkerPushError
    \/ WorkerCleanup
    \/ HandlerCommunicatorClose

Spec == Init /\ [][Next]_vars



(***************************************************************************)
(* Scheduling: both threads keep running, the engine terminates, every     *)
(* queue operation that can complete does.  The runtime is free to deliver *)
(* no further invocation and to keep run_handler from returning.           *)
(***************************************************************************)
Fairness ==
    /\ WF_vars(ExecuteQueryPush)
    /\ WF_vars(ExecuteQueryPop)
    /\ WF_vars(PostResponse)
    /\ WF_vars(ServerCommunicatorClose)
    /\ WF_vars(Join)
    /\ WF_vars(\E outcome \in {"ok", "init_throws", "main_throws"} :
                  WorkerInit(outcome))
    /\ WF_vars(WorkerPopQuery)
    /\ WF_vars(\E other_exception \in BOOLEAN : WorkerProcess(other_exception))
    /\ WF_vars(WorkerPushResponse)
    /\ WF_vars(WorkerPushError)
    /\ WF_vars(WorkerCleanup)
    /\ WF_vars(HandlerCommunicatorClose)

FairSpec == Spec /\ Fairness

(***************************************************************************)
(* The worker loop against a channel that is closed early.                 *)
(*                                                                         *)
(* mainEntryClickHouseLambda calls LambdaServerCommunicator::close() only  *)
(* after run_handler has returned, when no request is outstanding, so in   *)
(* Spec a push of a result never finds the response queue finished.  The   *)
(* communicator itself accepts close() at any time.  ClosedChannelSpec     *)
(* adds that call while a request of the dispatcher is outstanding: the    *)
(* loop of runQueryLoop is then run against every order of                 *)
(* query_queue.finish(), response_queue.finish() and its own steps.        *)
(***************************************************************************)

(* LambdaServerCommunicator::close() called while executeQuery is pushing  *)
(* or waiting: query_queue.finish(); response_queue.finish();              *)
ServerCommunicatorCloseEarly ==
    /\ dpc \in {"push", "pop"}
    /\ \/ /\ ~query_finished
          /\ query_finished' = TRUE
          /\ UNCHANGED response_finished
       \/ /\ query_finished
          /\ ~response_finished
          /\ response_finished' = TRUE
          /\ UNCHANGED query_finished
    /\ UNCHANGED <<query_queue, response_queue, handler_vars, worker_vars>>

ClosedChannelNext ==
    \/ Next
    \/ ServerCommunicatorCloseEarly

ClosedChannelSpec == Init /\ [][ClosedChannelNext]_vars

(***************************************************************************)
(* LambdaServer::main step by step.  spc is the place in main: "main",     *)
(* "processConfig", "applyCmdSettings", "connect", "runQueryLoop",         *)
(* "cleanup" (before the call of cleanup(), in the body or in a handler),  *)
(* "returned", and "unwound" when an exception has left main.  Nothing     *)
(* else runs.                                                              *)
(***************************************************************************)

(* An exception thrown in the function-try-block of main: one of the two   *)
(* handlers is entered, and it calls cleanup() first.                      *)
MainThrows(exception) ==
    /\ s_exception' = exception
    /\ spc' = "cleanup"

(* main up to processConfig(): the limit of open files (throw              *)
(* Poco::Exception("Cannot getrlimit")) and the registrations.             *)
MainRegisters(throws) ==
    /\ spc = "main"
    /\ IF throws
       THEN MainThrows(Thrown("other", POCO_EXCEPTION))
       ELSE /\ spc' = "processConfig"
            /\ UNCHANGED s_exception
    /\ UNCHANGED <<pipeline_vars, parse_vars, component_vars,
                   config, directories, settings,
                   global_context, connection, status,
                   temporary_directory_to_delete, created_directory,
                   removals, s_cleanups, s_failure, s_rc>>

(* processConfig(): the global context is created; tryInitPath() throws    *)
(* for a blank path and for a made-up directory that exists already, and   *)
(* otherwise creates the working directory, remembering in                 *)
(* temporary_directory_to_delete the one it made up; a later step          *)
(* (setupUsers, the loading of metadata) may throw; the settings are set   *)
(* up from the defaults of the build, whatever they are; the status file   *)
(* is taken when the configuration has a path.                             *)
ProcessConfig(throws) ==
    /\ spc = "processConfig"
    /\ global_context' = TRUE
    /\ IF config.path = "blank"
       THEN /\ MainThrows(Thrown("db", BAD_ARGUMENTS))
            /\ UNCHANGED <<directories, temporary_directory_to_delete,
                           created_directory, settings, status>>
       ELSE IF config.path = "absent" /\ DefaultPath \in directories
       THEN /\ \E code \in StartupErrorCodes \ {0} :
                   MainThrows(Thrown("db", code))
            /\ UNCHANGED <<directories, temporary_directory_to_delete,
                           created_directory, settings, status>>
       ELSE /\ IF config.path = "absent"
               THEN /\ directories' = directories \cup {DefaultPath}
                    /\ temporary_directory_to_delete' = Path(DefaultPath)
                    /\ created_directory' = TRUE
               ELSE /\ directories' = directories \cup {UserPath}
                    /\ UNCHANGED <<temporary_directory_to_delete,
                                   created_directory>>
            /\ IF throws
               THEN /\ \E code \in StartupErrorCodes :
                           MainThrows(Thrown("db", code))
                    /\ UNCHANGED <<settings, status>>
               ELSE /\ \E defaults \in SettingsValues :
                           settings' = processConfigSettings(defaults, config)
                    /\ status' = (config.path = "given")
                    /\ spc' = "applyCmdSettings"
                    /\ UNCHANGED s_exception
    /\ UNCHANGED <<pipeline_vars, parse_vars, component_vars,
                   config, connection, removals,
                   s_cleanups, s_failure, s_rc>>

(* main: adjustSettings(); initTTYBuffer(...);                             *)
(*       applyCmdSettings(global_context);                                 *)
ApplyCmdSettings ==
    /\ spc = "applyCmdSettings"
    /\ settings' = applySettingsChanges(settings, cmd_settings)
    /\ spc' = "connect"
    /\ UNCHANGED <<pipeline_vars, parse_vars, component_vars,
                   config, directories,
                   global_context, connection, status,
                   temporary_directory_to_delete, created_directory,
                   removals, s_exception, s_cleanups, s_failure, s_rc>>

(* main: loadOrReloadUserDefinedExecutableFunctions, whose exception is    *)
(* logged and thrown again, and connect().                                 *)
Connect(throws) ==
    /\ spc = "connect"
    /\ IF throws
       THEN /\ \E code \in StartupErrorCodes : MainThrows(Thrown("db", code))
            /\ UNCHANGED connection
       ELSE /\ connection' = TRUE
            /\ spc' = "runQueryLoop"
            /\ UNCHANGED s_exception
    /\ UNCHANGED <<pipeline_vars, parse_vars, component_vars,
                   config, directories, settings,
                   global_context, status, temporary_directory_to_delete,
                   created_directory, removals, s_cleanups, s_failure, s_rc>>

(* main: runQueryLoop(), which returns when the channel is closed or is    *)
(* left by an exception that is not a DB::Exception.                       *)
RunQueryLoop(throws) ==
    /\ spc = "runQueryLoop"
    /\ IF throws
       THEN MainThrows(Thrown("other", STD_EXCEPTION))
       ELSE /\ spc' = "cleanup"
            /\ UNCHANGED s_exception
    /\ UNCHANGED <<pipeline_vars, parse_vars, component_vars,
                   config, directories, settings,
                   global_context, connection, status,
                   temporary_directory_to_delete, created_directory,
                   removals, s_cleanups, s_failure, s_rc>>

(* main: cleanup(); return ...  in its body and in both handlers.  An      *)
(* exception out of cleanup() would leave main without a return value.     *)
MainCleanup(failure) ==
    /\ spc = "cleanup"
    /\ LET after == cleanup(Members, failure)
       IN  /\ connection' = after.connection
           /\ global_context' = after.global_context
           /\ status' = after.status
           /\ temporary_directory_to_delete' =
                  after.temporary_directory_to_delete
           /\ directories' = after.directories
           /\ removals' = after.removals
           /\ IF after.thrown
              THEN /\ spc' = "unwound"
                   /\ UNCHANGED s_rc
              ELSE /\ spc' = "returned"
                   /\ s_rc' = Returned(MainReturnCode(s_exception))
    /\ s_cleanups' = s_cleanups + 1
    /\ s_failure' = failure
    /\ UNCHANGED <<pipeline_vars, parse_vars, component_vars,
                   config, settings,
                   created_directory, s_exception>>

ServerInit ==
    /\ InitPipeline
    /\ payload_in = Malformed
    /\ parsed_out = Nullopt
    /\ \E config_ \in Configurations :
       \E directories_ \in SUBSET {DefaultPath, UserPath} :
           ServerStart(config_, directories_)
    /\ cache_input = NoCaches
    /\ cache_sizes = Nullopt
    /\ ConnectionStart
    /\ RabbitStart

ServerNext ==
    \/ \E throws \in BOOLEAN : MainRegisters(throws)
    \/ \E throws \in BOOLEAN : ProcessConfig(throws)
    \/ ApplyCmdSettings
    \/ \E throws \in BOOLEAN : Connect(throws)
    \/ \E throws \in BOOLEAN : RunQueryLoop(throws)
    \/ \E failure \in TeardownFailures : MainCleanup(failure)

ServerSpec == ServerInit /\ [][ServerNext]_vars

(***************************************************************************)
(* The sizing of the caches applied to one configuration after another.    *)
(***************************************************************************)
CacheInit ==
    /\ InitPipeline
    /\ payload_in = Malformed
    /\ parsed_out = Nullopt
    /\ ServerStart(NoConfiguration, {})
    /\ cache_input = NoCaches
    /\ cache_sizes = Nullopt
    /\ ConnectionStart
    /\ RabbitStart

SizeCaches ==
    /\ cache_sizes = Nullopt
    /\ cache_sizes' = [sizes |-> setCaches(cache_input)]
    /\ UNCHANGED <<cache_input, outside_cache>>

NextCacheInput(input) ==
    /\ cache_sizes # Nullopt
    /\ cache_input' = input
    /\ cache_sizes' = Nullopt
    /\ UNCHANGED outside_cache

CacheNext ==
    \/ SizeCaches
    \/ \E input \in CacheInputs : NextCacheInput(input)

CacheSpec == CacheInit /\ [][CacheNext]_vars

(***************************************************************************)
(* LambdaConnection under any order of calls: each call is a call          *)
(* sequence of its own.                                                    *)
(***************************************************************************)
ConnectionInit ==
    /\ InitPipeline
    /\ payload_in = Malformed
    /\ parsed_out = Nullopt
    /\ ServerStart(NoConfiguration, {})
    /\ cache_input = NoCaches
    /\ cache_sizes = Nullopt
    /\ ConnectionStart
    /\ RabbitStart

AnySendQuery(query, outcome) ==
    /\ conn_inv < MaxCalls
    /\ conn_inv' = conn_inv + 1
    /\ sendQuery(query, conn_inv + 1, outcome)
    /\ UNCHANGED <<cpc, outside_connection>>

AnySendExternalTablesData(tables, outcome) ==
    /\ conn_inv < MaxCalls
    /\ conn_inv' = conn_inv + 1
    /\ sendExternalTablesData(tables, conn_inv + 1, outcome)
    /\ UNCHANGED <<cpc, outside_connection>>

ConnectionNext ==
    \/ \E query \in ConnectionQueries, outcome \in ExecutionOutcomes :
           AnySendQuery(query, outcome)
    \/ \E tables \in ExternalTablesDataValues, outcome \in ExecutionOutcomes :
           AnySendExternalTablesData(tables, outcome)

ConnectionSpec == ConnectionInit /\ [][ConnectionNext]_vars

(***************************************************************************)
(* LambdaConnection under the calls of the client.  For every query        *)
(* ClientBase calls connection->sendQuery and then, send_external_tables   *)
(* being set by runQueryLoop, sendExternalTables, which collects the data  *)
(* of external_tables and calls connection->sendExternalTablesData; it     *)
(* throws before that call when the data cannot be made or the query is    *)
(* not one that takes external tables.  cpc is the place of the client:    *)
(* "idle" between two queries, "sendExternalTables" after its sendQuery.   *)
(***************************************************************************)
ClientSendQuery(query, outcome) ==
    /\ cpc = "idle"
    /\ conn_inv < MaxCalls
    /\ conn_inv' = conn_inv + 1
    /\ sendQuery(query, conn_inv + 1, outcome)
    /\ cpc' = IF conn_result'.rethrown = "none"
              THEN "sendExternalTables" ELSE "idle"
    /\ UNCHANGED outside_connection

ClientSendExternalTables(tables, throws, outcome) ==
    /\ cpc = "sendExternalTables"
    /\ cpc' = "idle"
    /\ IF throws
       THEN UNCHANGED <<send_query_parameters, external_tables_data,
                        q_calls, t_calls, conn_executions, last_execution,
                        conn_result>>
       ELSE sendExternalTablesData(tables, conn_inv, outcome)
    /\ UNCHANGED <<conn_inv, outside_connection>>

ClientNext ==
    \/ \E query \in ConnectionQueries, outcome \in ExecutionOutcomes :
           ClientSendQuery(query, outcome)
    \/ \E tables \in ExternalTablesDataValues, throws \in BOOLEAN,
          outcome \in ExecutionOutcomes :
           ClientSendExternalTables(tables, throws, outcome)

ClientSpec == ConnectionInit /\ [][ClientNext]_vars

(***************************************************************************)
(* RabbitMQBlockInputStream alone: the streams a storage makes one after   *)
(* the other.  A stream is constructed, readPrefix is called once, then    *)
(* read and sendAck are called, and the stream is destroyed.  rpc is the   *)
(* place of the stream in that life.                                       *)
(***************************************************************************)
RabbitInit ==
    /\ InitPipeline
    /\ payload_in = Malformed
    /\ parsed_out = Nullopt
    /\ ServerStart(NoConfiguration, {})
    /\ cache_input = NoCaches
    /\ cache_sizes = Nullopt
    /\ ConnectionStart
    /\ rpc = "constructed"
    /\ buffer = Nullopt
    /\ finished = FALSE
    /\ pool \in SUBSET {1, 2}
    /\ messages \in ReceivedQueues
    /\ channel_usable \in BOOLEAN
    /\ r_streams = 1
    /\ r_calls = 0
    /\ r_buffer_calls = 0
    /\ r_reads = 0
    /\ r_block = Nullopt
    /\ r_tracker = <<>>
    /\ r_pops = 0
    /\ r_pushes = 0
    /\ r_acks = 0
    /\ r_ack = Nullopt

ReadPrefix ==
    /\ rpc = "constructed"
    /\ rpc' = "reading"
    /\ \E popped \in {Nullopt} \cup {[channel_id |-> id] : id \in pool} :
           readPrefixImpl(popped)
    /\ UNCHANGED <<finished, messages, channel_usable, r_streams, r_calls,
                   r_buffer_calls, r_reads, r_block, r_tracker, r_pushes,
                   r_acks, r_ack, outside_rabbit>>

Read(limit, throws_at) ==
    /\ rpc = "reading"
    /\ r_calls < MaxReads
    /\ readImpl(limit, throws_at)
    /\ UNCHANGED <<rpc, buffer, pool, channel_usable, r_streams, r_pops,
                   r_pushes, r_acks, r_ack, outside_rabbit>>

SendAck(ack_messages) ==
    /\ rpc = "reading"
    /\ r_acks < MaxReads
    /\ sendAck(ack_messages)
    /\ UNCHANGED <<rpc, buffer, finished, pool, messages, channel_usable,
                   r_streams, r_calls, r_buffer_calls, r_reads, r_block,
                   r_tracker, r_pops, r_pushes, outside_rabbit>>

(* The channel of the buffer fails.                                        *)
ChannelError ==
    /\ rpc = "reading"
    /\ channel_usable
    /\ channel_usable' = FALSE
    /\ UNCHANGED <<rpc, buffer, finished, pool, messages, r_streams, r_calls,
                   r_buffer_calls, r_reads, r_block, r_tracker, r_pops,
                   r_pushes, r_acks, r_ack, outside_rabbit>>

(* needManualChannelUpdate() and updateChannel(): the channel of the       *)
(* buffer is set up again.                                                 *)
UpdateChannel ==
    /\ rpc = "reading"
    /\ buffer # Nullopt
    /\ ~channel_usable
    /\ channel_usable' = TRUE
    /\ UNCHANGED <<rpc, buffer, finished, pool, messages, r_streams, r_calls,
                   r_buffer_calls, r_reads, r_block, r_tracker, r_pops,
                   r_pushes, r_acks, r_ack, outside_rabbit>>

Destroy ==
    /\ rpc \in {"constructed", "reading"}
    /\ rpc' = "destroyed"
    /\ Destructor
    /\ UNCHANGED <<buffer, finished, messages, channel_usable, r_streams,
                   r_calls, r_buffer_calls, r_reads, r_block, r_tracker,
                   r_pops, r_acks, r_ack, outside_rabbit>>

(* The constructor: the next stream of the storage.                        *)
Construct ==
    /\ rpc = "destroyed"
    /\ r_streams < MaxStreams
    /\ r_streams' = r_streams + 1
    /\ rpc' = "constructed"
    /\ buffer' = Nullopt
    /\ finished' = FALSE
    /\ r_calls' = 0
    /\ r_buffer_calls' = 0
    /\ r_reads' = 0
    /\ r_block' = Nullopt
    /\ r_tracker' = <<>>
    /\ r_pops' = 0
    /\ r_pushes' = 0
    /\ r_acks' = 0
    /\ r_ack' = Nullopt
    /\ UNCHANGED <<pool, messages, channel_usable, outside_rabbit>>

RabbitNext ==
    \/ ReadPrefix
    \/ \E limit \in 0..MaxMessages, throws_at \in 0..MaxMessages :
           Read(limit, throws_at)
    \/ \E ack_messages \in BOOLEAN : SendAck(ack_messages)
    \/ ChannelError
    \/ UpdateChannel
    \/ Destroy
    \/ Construct

RabbitSpec == RabbitInit /\ [][RabbitNext]_vars

(***************************************************************************)
(* Properties.                                                             *)
(***************************************************************************)

(* C1: the result lambdaHandler receives from executeQuery for its N-th    *)
(* invocation was made by the worker from the query of the N-th            *)
(* invocation, and so was every result that waits in response_queue or is  *)
(* being pushed, from the query the worker holds: no result is left over   *)
(* for, or taken from, another invocation, and none is there twice.        *)
C1_NthResponseForNthRequest ==
    /\ (dpc = "post" /\ inv_how = "result") => lambda_result.of = invocations
    /\ \A i \in 1..Len(response_queue) : response_queue[i].of = invocations
    /\ w_query # Nullopt => w_query.qid = invocations
    /\ w_result # Nullopt => w_result.of = invocations
    /\ Len(response_queue) <= 1
    /\ response_queue # <<>> => dpc = "pop" /\ w_result = Nullopt

C1_Witness ==
    /\ dpc = "post"
    /\ inv_how = "result"
    /\ invocations = 3
    /\ w_errors
    /\ lambda_result.of = 3

(* C2: when lambdaHandler returns a result that came from the worker, the  *)
(* invocation pushed exactly one query and popped exactly one result, and  *)
(* both queues are empty.                                                  *)
C2_OnePushOnePopQueuesEmpty ==
    (dpc = "post" /\ inv_how = "result") =>
        /\ inv_pushed = 1
        /\ inv_popped = 1
        /\ query_queue = <<>>
        /\ response_queue = <<>>

C2_Witness ==
    /\ dpc = "post"
    /\ inv_how = "result"
    /\ inv_pushed = 1
    /\ inv_popped = 1
    /\ invocations = 2

(* C3: lambdaHandler returns the runtime-level failure ("ClickHouse lambda *)
(* server disconnected", "FAILURE") exactly when the payload was decoded   *)
(* and the push of the query or the pop of the result failed, which        *)
(* happens only on a finished queue; every other return is a JSON body.    *)
C3_FailureIffDisconnected ==
    dpc = "post" =>
        /\ inv_how \in {"push_failed", "pop_failed"} =>
               /\ response = ResponseFailure(
                                 "ClickHouse lambda server disconnected",
                                 "FAILURE")
               /\ lambda_result = Nullopt
               /\ envelope # "malformed"
        /\ inv_how = "push_failed" => query_finished /\ inv_pushed = 0
        /\ inv_how = "pop_failed" =>
               response_finished /\ inv_pushed = 1 /\ inv_popped = 0
        /\ inv_how \in {"decode_error", "result"} =>
               /\ response.kind = "success"
               /\ response.content_type = "application/json"
        /\ response.kind = "failure" =>
               /\ inv_how \in {"push_failed", "pop_failed"}
               /\ query_finished \/ response_finished
        /\ response.kind \in {"success", "failure"}

C3_Witness ==
    /\ dpc = "post"
    /\ inv_how = "pop_failed"
    /\ response.kind = "failure"
    /\ invocations = 2

(* C4: once one side is in or past close(), an operation of the other side *)
(* on a queue returns: the main thread does not stay in the push or the    *)
(* pop of executeQuery, the worker does not stay in popQuery or in         *)
(* pushResponse.                                                           *)
WorkerClosing == wpc \in {"dtor_query", "dtor_response", "done"}

DispatcherClosing == dpc \in {"close_query", "close_response", "join", "returned"}

C4_NoDeadlockOnClose ==
    /\ (WorkerClosing /\ dpc = "push") ~> (dpc # "push")
    /\ (WorkerClosing /\ dpc = "pop") ~> (dpc # "pop")
    /\ (DispatcherClosing /\ wpc = "popQuery") ~> (wpc # "popQuery")
    /\ (DispatcherClosing /\ wpc = "pushResponse") ~> (wpc # "pushResponse")
    /\ (DispatcherClosing /\ wpc = "pushError") ~> (wpc # "pushError")

C4_Witness ==
    /\ dpc = "pop"
    /\ wpc = "dtor_response"
    /\ query_finished
    /\ ~response_finished

C6_InitFailureDisconnects ==
    /\ [](w_cause = "init" =>
            /\ wpc \in {"cleanup", "dtor_query", "dtor_response", "done"}
            /\ w_pushed = 0
            /\ response_queue = <<>>)
    /\ []((w_cause = "init" /\ dpc = "post" /\ inv_how # "decode_error") =>
            response = ResponseFailure("ClickHouse lambda server disconnected",
                                       "FAILURE"))
    /\ (w_cause = "init") ~> (query_finished /\ response_finished)
    /\ (w_cause = "init" /\ dpc \in {"push", "pop"}) ~>
           (dpc = "post" /\ response.kind = "failure")

C6_Witness ==
    /\ w_cause = "init"
    /\ dpc = "post"
    /\ inv_how = "pop_failed"
    /\ response.kind = "failure"

(* C7: in the catch block of runQueryLoop the worker holds an error result *)
(* for the query it popped, the channel is open and the handler waits for  *)
(* it; the step out of the catch block puts exactly that one result on     *)
(* response_queue, keeps both queues open and returns to popQuery, and a   *)
(* request pushed afterwards is popped.                                    *)
C7_EngineErrorKeepsWorker ==
    /\ [](wpc = "pushError" =>
            /\ w_result.error # EmptyString
            /\ w_result.of = w_query.qid
            /\ w_pushed = 0
            /\ response_queue = <<>>
            /\ ~query_finished /\ ~response_finished
            /\ dpc = "pop")
    /\ [][(wpc = "pushError" /\ wpc' # "pushError") =>
              /\ wpc' = "popQuery"
              /\ response_queue' = <<w_result>>
              /\ w_pushed' = 1
              /\ ~query_finished' /\ ~response_finished'
              /\ w_cause' = "running"]_vars
    /\ (w_errors /\ wpc = "popQuery" /\ query_queue # <<>>) ~> (wpc = "process")

C7_Witness ==
    /\ w_errors
    /\ wpc = "pushResponse"
    /\ w_result.error = EmptyString
    /\ w_result.data # EmptyString
    /\ w_result.of = 2

(* C8, as claimed: the worker never leaves runQueryLoop because of an      *)
(* error raised while it processes a query, so no runtime-level failure    *)
(* is the consequence of such an error.                                    *)
C8_ProcessingErrorNeverDisconnects ==
    /\ w_cause # "exception"
    /\ (dpc = "post" /\ response.kind = "failure") => w_cause # "exception"

(* C9, as claimed: every LambdaResult has exactly one of data and error    *)
(* non-empty.                                                              *)
LambdaResults ==
    ({w_result, lambda_result} \ {Nullopt})
        \cup { response_queue[i] : i \in 1..Len(response_queue) }

ExpectedResultObject ==
    IF lambda_result.error = EmptyString
    THEN [format |-> lambda_result.format, data |-> lambda_result.data]
    ELSE [error |-> lambda_result.error]

C10_ResponseShapeFollowsEnvelope ==
    (dpc = "post" /\ response.kind = "success") =>
        IF envelope = "rest"
        THEN /\ DOMAIN response.payload = {"body"}
             /\ response.payload.body = ExpectedResultObject
        ELSE /\ DOMAIN response.payload \in {{"format", "data"}, {"error"}}
             /\ response.payload = ExpectedResultObject

C10_Witness ==
    /\ dpc = "post"
    /\ envelope = "rest"
    /\ inv_how = "decode_error"
    /\ DOMAIN response.payload = {"body"}
    /\ DOMAIN response.payload.body = {"error"}

(***************************************************************************)
(* C11: when the decoding of the payload fails, lambdaHandler returns a    *)
(* JSON response holding Result{error} whose error begins with "Failed to  *)
(* parse lambda input JSON: ", and the invocation leaves the channel and   *)
(* the worker as they were: nothing is pushed to query_queue, nothing is   *)
(* popped from response_queue, and the worker executes no query for it.    *)
(* The decoding fails for a malformed JSON text, a missing clickHouse      *)
(* object and a missing query, sent directly or as the body of a gateway   *)
(* event.                                                                  *)
(***************************************************************************)
UndecodableTexts ==
    { t \in InnerTexts :
        \/ ~t.wellformed
        \/ t.clickHouse = Absent
        \/ t.clickHouse.query = Absent }

UndecodablePayloads ==
    UndecodableTexts \cup
    { JsonObject(m, r, Body(0, t), Absent, Absent) :
        m \in {Absent, JStr("POST")}, r \in {Absent, JStr("{...}")},
        t \in UndecodableTexts }

DecodeErrorResultObject ==
    IF request_context = "API_GW_REST" THEN response.payload.body
    ELSE response.payload

C11_DecodeFailureLeavesChannel ==
    /\ [](\A p \in UndecodablePayloads :
              parseLambdaRequestPayload(p).exception)
    /\ []((dpc = "post" /\ inv_how = "decode_error") =>
              /\ response.kind = "success"
              /\ DOMAIN DecodeErrorResultObject = {"error"}
              /\ Head(DecodeErrorResultObject.error) =
                     "Failed to parse lambda input JSON: "
              /\ inv_pushed = 0
              /\ inv_popped = 0
              /\ wpc \notin {"process", "pushResponse", "pushError"}
              /\ w_query = Nullopt)
    /\ [][(dpc = "run_handler" /\ dpc' = "post") =>
              /\ inv_how' = "decode_error"
              /\ UNCHANGED queue_vars
              /\ UNCHANGED worker_vars]_vars
    /\ [][(dpc = "post" /\ inv_how = "decode_error" /\ dpc' # "post") =>
              /\ dpc' = "run_handler"
              /\ UNCHANGED queue_vars
              /\ UNCHANGED worker_vars]_vars

C11_Witness ==
    /\ dpc = "post"
    /\ inv_how = "decode_error"
    /\ envelope = "http"
    /\ lambda_result.error =
           <<"Failed to parse lambda input JSON: ", "Not found: query">>
    /\ wpc = "popQuery"
    /\ invocations = 2

(***************************************************************************)
(* C12: while the worker executes the query of a request, external_tables  *)
(* holds exactly one table, named "table" and built from the structure,    *)
(* the format and the data of that request, when its input_data is not     *)
(* empty, and no table otherwise (a request whose table cannot be built    *)
(* is answered with an error without the query being executed, and holds   *)
(* no table).  external_tables is empty whenever the worker waits in       *)
(* popQuery and whenever it starts on a popped query, so the table of an   *)
(* earlier invocation is never visible to a later query.                   *)
(***************************************************************************)
TablesOfRequest(query) ==
    IF query.input_data # ""
    THEN << LambdaTable("table", query.input_structure, query.input_format,
                        query.input_data) >>
    ELSE <<>>

C12_OneTablePerRequest ==
    /\ wpc \in {"init", "popQuery", "process"} => external_tables = <<>>
    /\ wpc = "pushResponse" => external_tables = TablesOfRequest(w_query)
    /\ wpc = "pushError" =>
           \/ external_tables = TablesOfRequest(w_query)
           \/ /\ external_tables = <<>>
              /\ parseStructureFromStructureFieldThrows(
                     w_query.input_structure)
    /\ wpc \in {"pushResponse", "pushError"} =>
           /\ Len(external_tables) <= 1
           /\ \A i \in 1..Len(external_tables) :
                  /\ external_tables[i].name = "table"
                  /\ external_tables[i].data = w_query.input_data

C12_Witness ==
    /\ wpc = "pushResponse"
    /\ Len(external_tables) = 1
    /\ external_tables[1].structure = "a Int64, b Int64"
    /\ w_query.qid = 3
    /\ w_errors

(***************************************************************************)
(* C13: a request whose input_data is not empty and whose input_structure  *)
(* is empty is answered on the response path with a Result{error}, never   *)
(* with a success result, and the worker goes on to the next popQuery.     *)
(***************************************************************************)
DataWithoutStructure(query) ==
    query # Nullopt /\ query.input_data # "" /\ query.input_structure = ""

C13_DataWithoutStructureIsError ==
    /\ [](DataWithoutStructure(w_query) => wpc # "pushResponse")
    /\ []((wpc = "pushError" /\ DataWithoutStructure(w_query)) =>
              /\ w_result.error # EmptyString
              /\ w_result.data = EmptyString
              /\ w_result.of = w_query.qid
              /\ w_cause = "running")
    /\ [][(wpc = "process" /\ DataWithoutStructure(w_query) /\ wpc' # wpc) =>
              \/ wpc' = "pushError"
              \/ wpc' = "cleanup" /\ w_cause' = "exception"]_vars
    /\ [][(wpc = "pushError" /\ DataWithoutStructure(w_query)
              /\ wpc' # wpc) =>
              /\ wpc' = "popQuery"
              /\ response_queue' = Append(response_queue, w_result)]_vars

C13_Witness ==
    /\ wpc = "popQuery"
    /\ w_errors
    /\ dpc = "post"
    /\ inv_how = "result"
    /\ lambda_result.error =
           <<"Code: 36. DB::Exception: ",
             "Error while parsing table structure">>
    /\ response.kind = "success"

(***************************************************************************)
(* C14: the result of a successful query whose text holds no format of its *)
(* own (no FORMAT clause, no \G suffix) names the output_format of the     *)
(* request when that is not empty and the default of the container (TSV)   *)
(* otherwise, whatever format the query before it left in                  *)
(* current_output_format; the bytes are written in that format.            *)
(***************************************************************************)
NoFormatInText(query) ==
    query.query_text.format_clause = "" /\ ~query.query_text.vertical

C14_RequestFormatOrDefault ==
    /\ []((wpc = "pushResponse" /\ NoFormatInText(w_query)) =>
              /\ w_query.output_format # "" =>
                     w_result.format = w_query.output_format
              /\ w_query.output_format = "" => w_result.format = "TSV"
              /\ current_output_format = w_result.format
              /\ \A i \in 1..Len(w_result.data) :
                     w_result.data[i].query = w_query.query_text.name =>
                         w_result.data[i].format = w_result.format)
    /\ [][(wpc = "process" /\ wpc' = "pushResponse"
              /\ NoFormatInText(w_query)) =>
              w_result'.format =
                  IF w_query.output_format # "" THEN w_query.output_format
                  ELSE "TSV"]_vars

C14_Witness ==
    /\ wpc = "pushResponse"
    /\ w_query.qid = 2
    /\ w_query.output_format = ""
    /\ w_query.query_text.name = "SELECT 1"
    /\ w_result.format = "TSV"
    /\ w_result.data = OutputBytes(w_query.query_text, "TSV", <<>>, "all")

IntoOutfile(query) == query # Nullopt /\ query.query_text.out_file

C17_NoPartialResults ==
    /\ wpc = "pushError" => w_result.data = EmptyString
    /\ wpc = "pushResponse" =>
           /\ \A i \in 1..Len(w_result.data) :
                  /\ w_result.data[i].query = w_query.query_text.name
                  /\ w_result.data[i].part = "all"
           /\ ~w_query.query_text.produces_output =>
                  w_result.data = EmptyString

(***************************************************************************)
(* C18: the body of a gateway event is base64-decoded before it is parsed  *)
(* as JSON exactly when the isBase64Encoded field is the string "true";    *)
(* with any other string, or without the field, the body is parsed as it   *)
(* is.  So the request in the body is found exactly when the body is       *)
(* encoded once under "true" and not at all otherwise; a plain body under  *)
(* "true" fails in the decoding, an encoded body under anything else fails *)
(* in the JSON parser.                                                     *)
(***************************************************************************)
GatewayBodyParsed ==
    /\ parsed_out # Nullopt
    /\ payload_in.wellformed
    /\ parsed_out.context # "DIRECT"
    /\ payload_in.body # Absent

HoldsRequest(text) ==
    /\ text.wellformed
    /\ text.clickHouse # Absent
    /\ text.clickHouse.query # Absent

RequestFrom(json) ==
    LambdaQuery(json.clickHouse.query,
                optValue(json.clickHouse, "outputFormat", ""),
                optValue(json.clickHouse, "inputFormat", ""),
                optValue(json.clickHouse, "structure", ""),
                optValue(json.clickHouse, "data", ""))

ObjectParsed == parsed_out # Nullopt /\ payload_in.wellformed

C19_EnvelopeByFieldPresence ==
    ObjectParsed =>
        parsed_out.context =
            IF payload_in.httpMethod # Absent THEN "API_GW_REST"
            ELSE IF payload_in.requestContext # Absent THEN "API_GW_HTTP"
            ELSE "DIRECT"

(* C19, amended: the event is REST-gateway when httpMethod is present with *)
(* a value that is not empty, HTTP-gateway when it is not REST-gateway and *)
(* requestContext is present with a value that is not empty, and Direct    *)
(* otherwise, an httpMethod or requestContext that is present but empty    *)
(* counting as absent.  The clickHouse object is taken from the parsed     *)
(* body for both gateway kinds, a top-level clickHouse being ignored, and  *)
(* from the top-level object for Direct, a body being ignored.             *)
C19_EnvelopeByNonEmptyField ==
    ObjectParsed =>
        LET rest == payload_in.httpMethod \notin {Absent, JStr("")}
            http == ~rest /\ payload_in.requestContext \notin {Absent, JStr("")}
        IN  /\ parsed_out.context =
                   IF rest THEN "API_GW_REST"
                   ELSE IF http THEN "API_GW_HTTP"
                   ELSE "DIRECT"
            /\ (~rest /\ ~http) =>
                   /\ ~parsed_out.exception <=> payload_in.clickHouse # Absent
                   /\ ~parsed_out.exception =>
                          parsed_out.query = RequestFrom(payload_in)
            /\ (rest \/ http) =>
                   /\ ~parsed_out.exception =>
                          /\ payload_in.body # Absent
                          /\ HoldsRequest(payload_in.body.text)
                          /\ parsed_out.query =
                                 RequestFrom(payload_in.body.text)
                   /\ payload_in.body = Absent =>
                          parsed_out.what = "Not found: body"

C19_Witness ==
    /\ ObjectParsed
    /\ payload_in.httpMethod = JStr("")
    /\ payload_in.requestContext = JStr("{...}")
    /\ payload_in.clickHouse # Absent
    /\ payload_in.body # Absent
    /\ parsed_out.context = "API_GW_HTTP"
    /\ ~parsed_out.exception
    /\ parsed_out.query.query_text = TextNamed("SELECT 1")

(***************************************************************************)
(* C20: the exit code of the process, the value mainEntryClickHouseLambda  *)
(* returns, is the error code of the engine when the startup of the worker *)
(* failed fatally (the value LambdaServer::main returned, not 0), and 0    *)
(* on a clean exit.                                                        *)
(***************************************************************************)
C20_ExitCodeIsEngineCode ==
    dpc = "returned" =>
        /\ w_cause = "init" =>
               /\ exit_code.code # 0
               /\ main_rc # Nullopt => exit_code = main_rc
        /\ w_cause = "pop_failed" => exit_code = Returned(0)

(***************************************************************************)
(* C21: determinism across invocations.  The Result of a query is the      *)
(* Result the same query has on a container that has served nothing yet    *)
(* (no table attached, nothing in query_response), whatever invocations    *)
(* ran before it: same format, same data, same error.                      *)
(***************************************************************************)
ResultOnCleanContainer(query) ==
    LET table_throws ==
            /\ query.input_data # ""
            /\ parseStructureFromStructureFieldThrows(query.input_structure)
        outcome ==
            IF table_throws
            THEN QueryOutcome("db",
                     <<"Code: 36. DB::Exception: ",
                       "Error while parsing table structure">>,
                     "", EmptyString)
            ELSE processQueryText(query.query_text, TablesOfRequest(query),
                                  RequestOutputFormat(query), EmptyString)
    IN  IF outcome.exception = "none"
        THEN LambdaResultData(outcome.current_output_format,
                              outcome.query_response, query.qid)
        ELSE LambdaResultError(outcome.message, query.qid)

C21_SameQuerySameResult ==
    wpc \in {"pushResponse", "pushError"} =>
        /\ w_result.format = ResultOnCleanContainer(w_query).format
        /\ w_result.data = ResultOnCleanContainer(w_query).data
        /\ w_result.error = ResultOnCleanContainer(w_query).error

(***************************************************************************)
(* C22: the table attached for a request is removed on every exit path of  *)
(* the processing of that request in runQueryLoop (successful push, engine *)
(* exception, failed push of the response, an exception that is not an     *)
(* engine exception): whenever the worker is not processing a request,     *)
(* in the loop or after it, external_tables holds no table.                *)
(***************************************************************************)
C22_TableRemovedOnEveryExit ==
    wpc \in {"popQuery", "cleanup", "dtor_query", "dtor_response", "done"} =>
        external_tables = <<>>

(***************************************************************************)
(* C23: when the push of a result fails because the channel is closed,     *)
(* the worker leaves its loop without executing a further query.  After    *)
(* the try block (a success result) the failed push leaves the loop at     *)
(* once.  The catch block (an error result) ignores what pushResponse      *)
(* returns and goes on to popQuery; the query queue is then finished and   *)
(* empty, so that popQuery fails and the loop is left there.  In both      *)
(* cases no query is processed between the failed push and cleanup().      *)
(* Checked under ClosedChannelSpec, where a push can fail.                 *)
(***************************************************************************)
C23_PopFails ==
    /\ query_finished
    /\ query_queue = <<>>

C24_AtMostOneElement ==
    /\ Len(query_queue) <= 1
    /\ Len(response_queue) <= 1
    /\ (dpc = "push" /\ ~query_finished) => query_queue = <<>>
    /\ (wpc \in {"pushResponse", "pushError"} /\ ~response_finished)
          => response_queue = <<>>
    /\ dpc = "push" => ~PushWaits(query_queue, query_finished)
    /\ wpc \in {"pushResponse", "pushError"}
          => ~PushWaits(response_queue, response_finished)

(* The third invocation has pushed its query and waits; the worker has     *)
(* popped the query and pushed its result.                                 *)
C24_Witness ==
    /\ invocations = 3
    /\ inv_pushed = 1
    /\ dpc = "pop"
    /\ Len(response_queue) = 1
    /\ query_queue = <<>>

(***************************************************************************)
(* C25: close() is idempotent and symmetric.  When close() of either side  *)
(* has returned, both queues are finished; a queue that is finished stays  *)
(* finished, so a later close() of the same or of the other side leaves    *)
(* the closed state as it is and fails nothing (it only moves the caller   *)
(* on); and no push succeeds on a finished queue: it never grows again.    *)
(***************************************************************************)
C25_BothFinished ==
    /\ query_finished
    /\ response_finished

C25_CloseIdempotentSymmetric ==
    [][/\ dpc' \in {"join", "returned"} => C25_BothFinished'
       /\ wpc' = "done" => C25_BothFinished'
       /\ query_finished
             => query_finished' /\ Len(query_queue') <= Len(query_queue)
       /\ response_finished
             => /\ response_finished'
                /\ Len(response_queue') <= Len(response_queue)
       /\ (C25_BothFinished /\ dpc \in {"close_query", "close_response"}
             /\ dpc' # dpc)
             => /\ dpc' \in {"close_response", "join"}
                /\ UNCHANGED queue_vars
       /\ (C25_BothFinished /\ wpc \in {"dtor_query", "dtor_response"}
             /\ wpc' # wpc)
             => /\ wpc' \in {"dtor_response", "done"}
                /\ UNCHANGED queue_vars]_vars

(* The worker closed the channel when its initialisation failed, no query  *)
(* of the invocations entered the query queue, and the dispatcher has      *)
(* closed the channel again.                                               *)
C25_Witness ==
    /\ wpc = "done"
    /\ w_cause = "init"
    /\ dpc = "join"
    /\ invocations > 0
    /\ query_queue = <<>>
    /\ C25_BothFinished

(***************************************************************************)
(* C26: no exception leaves the worker thread or reaches the dispatcher.   *)
(* Every exception thrown in the worker is caught in runQueryLoop, in      *)
(* LambdaServer::main or in lambdaServerThreadFunction, so the thread      *)
(* function is never left by an exception.  What crosses between the       *)
(* threads are only LambdaQuery values in query_queue and LambdaResult     *)
(* values in response_queue; executeQuery hands the handler a LambdaResult *)
(* or std::nullopt.                                                        *)
(***************************************************************************)
IsLambdaQuery(v) ==
    DOMAIN v = {"query_text", "output_format", "input_format",
                "input_structure", "input_data", "qid"}

IsLambdaResult(v) == DOMAIN v = {"format", "data", "error", "of"}

C26_NoExceptionLeavesWorker ==
    /\ wpc \in {"init", "popQuery", "process", "pushResponse", "pushError",
                "cleanup", "dtor_query", "dtor_response", "done"}
    /\ \A i \in 1..Len(query_queue) : IsLambdaQuery(query_queue[i])
    /\ \A i \in 1..Len(response_queue) : IsLambdaResult(response_queue[i])
    /\ dpc = "post" =>
          (lambda_result = Nullopt \/ IsLambdaResult(lambda_result))
    /\ wpc \in {"pushResponse", "pushError"} => IsLambdaResult(w_result)

(* The engine threw an exception that is not a DB::Exception while the     *)
(* dispatcher waited for the result: main caught it, the thread function   *)
(* has returned, and executeQuery returned std::nullopt.                   *)
C26_Witness ==
    /\ wpc = "done"
    /\ w_cause = "exception"
    /\ dpc = "post"
    /\ inv_how = "pop_failed"
    /\ lambda_result = Nullopt

(***************************************************************************)
(* C27: the engine is initialised exactly once per process, before the     *)
(* worker's first popQuery.  The worker starts in the initialisation and   *)
(* never comes back to it, so one engine serves all invocations.  While it *)
(* initialises it has taken no query and takes none out of the query       *)
(* queue; a query pushed in the meantime is still in the queue when the    *)
(* initialisation has completed, and the worker then pops and processes    *)
(* it.                                                                     *)
(***************************************************************************)
C27_InitOnceBeforeFirstPop ==
    /\ [](wpc = "init" => (w_query = Nullopt /\ response_queue = <<>>))
    /\ [][/\ wpc # "init" => wpc' # "init"
          /\ wpc = "init" => /\ Len(query_queue') >= Len(query_queue)
                             /\ wpc' # "process"
          /\ (wpc = "init" /\ wpc' = "popQuery")
                => query_queue' = query_queue]_vars
    /\ (wpc = "popQuery" /\ query_queue # <<>>) ~> (wpc = "process")

(* The first invocation has pushed its query while the engine starts.      *)
C27_Witness ==
    /\ wpc = "init"
    /\ dpc = "pop"
    /\ invocations = 1
    /\ Len(query_queue) = 1
    /\ query_queue[1].qid = 1

(***************************************************************************)
(* C28: when the worker enters its query loop, the global context has      *)
(* allow_introspection_functions = true and storage_file_read_method =     *)
(* mmap, whatever the command line and the default profile give.           *)
(***************************************************************************)
C28_OverridesInForce ==
    spc = "runQueryLoop" =>
        /\ settings.allow_introspection_functions = TRUE
        /\ settings.storage_file_read_method = "mmap"

(***************************************************************************)
(* C29: on every exit path of main cleanup() has run, and the working      *)
(* directory is deleted exactly when tryInitPath created it itself: a      *)
(* directory the configuration names is never removed, and the directory   *)
(* tryInitPath made up is removed even when an earlier step of the         *)
(* teardown (the shutdown of the context) failed.  Only a failure of       *)
(* remove_all itself may leave it.  remove_all is the one step that        *)
(* deletes a directory, so "never removed" is: remove_all was not called.  *)
(***************************************************************************)
C29_DirectoryDeletedIffCreated ==
    spc = "returned" =>
        /\ s_cleanups = 1
        /\ ~created_directory => removals = 0
        /\ config.path = "given" => (removals = 0 /\ ~created_directory)
        /\ (created_directory /\ s_failure # "remove_all")
              => DefaultPath \notin directories

(***************************************************************************)
(* C30: cleanup() never raises.  Whatever step of the teardown fails, the  *)
(* error is swallowed: no exception leaves main through cleanup(), and     *)
(* main returns its exit code (0 after a normal end of the loop, the       *)
(* non-zero code of the exception otherwise).  A second call of cleanup()  *)
(* raises nothing either and leaves what the first call released as it     *)
(* is: the connection, the context and the status stay released, and once  *)
(* temporary_directory_to_delete is reset no directory is removed again,   *)
(* so remove_all is called at most once.                                   *)
(***************************************************************************)
C30_CleanupNeverRaises ==
    /\ spc # "unwound"
    /\ spc = "returned" =>
          /\ s_cleanups = 1
          /\ s_rc # Nullopt
          /\ s_exception = Nullopt => s_rc.code = 0
          /\ s_exception # Nullopt => s_rc.code # 0
          /\ removals <= 1
          /\ \A failure \in TeardownFailures :
                LET again == cleanup(Members, failure)
                IN  /\ ~again.thrown
                    /\ ~again.connection
                    /\ ~global_context =>
                          (~again.global_context /\ ~again.status)
                    /\ temporary_directory_to_delete = Nullopt =>
                          /\ again.temporary_directory_to_delete = Nullopt
                          /\ again.directories = directories
                          /\ again.removals = removals
                    /\ again.removals <= 1

(* main has caught the BAD_ARGUMENTS of tryInitPath, the shutdown of the   *)
(* context failed inside cleanup(), and main has returned the code.        *)
C30_Witness ==
    /\ spc = "returned"
    /\ s_failure = "shutdown"
    /\ global_context
    /\ s_exception = Thrown("db", BAD_ARGUMENTS)
    /\ s_rc = Returned(BAD_ARGUMENTS)

(***************************************************************************)
(* C31: each of the five cache sizes handed to the engine is the smaller   *)
(* of the configured size and max_cache_size, where max_cache_size is the  *)
(* physical memory times cache_size_to_ram_max_ratio, truncated to an      *)
(* integer; no cache is sized above max_cache_size.                        *)
(***************************************************************************)
C31_TruncatedProduct ==
    CHOOSE m \in 0..(2 * cache_input.physical_server_memory) :
        /\ m * cache_input.cache_size_to_ram_max_ratio[2]
              <= cache_input.physical_server_memory
                    * cache_input.cache_size_to_ram_max_ratio[1]
        /\ (m + 1) * cache_input.cache_size_to_ram_max_ratio[2]
              > cache_input.physical_server_memory
                    * cache_input.cache_size_to_ram_max_ratio[1]

C31_Min(a, b) == IF a <= b THEN a ELSE b

C31_CacheSizesClamped ==
    cache_sizes # Nullopt =>
        \A name \in CacheNames :
            /\ cache_sizes.sizes[name]
                  = C31_Min(cache_input.sizes[name], C31_TruncatedProduct)
            /\ cache_sizes.sizes[name] <= C31_TruncatedProduct

(* Half of 5 units of memory is 2: a cache configured with 3 is lowered to *)
(* 2, one configured with 2 keeps its size.                                *)
C31_Witness ==
    /\ cache_sizes # Nullopt
    /\ cache_input.physical_server_memory = 5
    /\ cache_input.cache_size_to_ram_max_ratio = <<1, 2>>
    /\ cache_input.sizes["mark"] = 3
    /\ cache_input.sizes["mmap"] = 2
    /\ cache_sizes.sizes["mark"] = 2
    /\ cache_sizes.sizes["mmap"] = 2

(***************************************************************************)
(* C32.  For a request with inline data the temporary table is registered  *)
(* in the query context under its name and filled to the end of its pipe   *)
(* before the query text is executed: whenever the engine executed the     *)
(* text, the query context holds every table of the data, in order, under  *)
(* its name and with all of its rows, and an execution whose pipe threw    *)
(* did not execute the text.                                               *)
(***************************************************************************)
C32_TablesLoadedBeforeQuery ==
    last_execution # Nullopt =>
        LET tables == last_execution.data_tables
            context == last_execution.context_tables
        IN  /\ last_execution.text_executed =>
                /\ Len(context) = Len(tables)
                /\ \A i \in 1..Len(tables) :
                       /\ context[i].table_name = tables[i].table_name
                       /\ context[i].rows_loaded = tables[i].rows
            /\ (\E i \in 1..Len(context) :
                    context[i].rows_loaded < context[i].rows)
                   => ~last_execution.text_executed

(* The text of a query was executed on two loaded tables.                  *)
C32_Witness ==
    /\ last_execution # Nullopt
    /\ last_execution.text_executed
    /\ Len(last_execution.context_tables) = 2
    /\ last_execution.context_tables[1].rows_loaded = 2

(***************************************************************************)
(* C33.  LambdaConnection forwards a query to LocalConnection::sendQuery   *)
(* only when both sendQuery and sendExternalTablesData have been called    *)
(* since the last execution, in either order, and once per such pair: a    *)
(* call forwards exactly when the slot of the other method is set, so      *)
(* sendQuery alone and sendExternalTablesData alone execute nothing.       *)
(***************************************************************************)
C33_ForwardsOncePerPair ==
    [][LET completes ==
               \/ q_calls' > q_calls /\ external_tables_data # Nullopt
               \/ t_calls' > t_calls /\ send_query_parameters # Nullopt
       IN  /\ conn_executions' =
                  conn_executions + (IF completes THEN 1 ELSE 0)
           /\ conn_result'.forwarded = completes
           /\ conn_executions' <= q_calls'
           /\ conn_executions' <= t_calls'
           /\ ~isReady(send_query_parameters', external_tables_data')]_vars

(* Two executions, the second one started by sendQuery.                    *)
C33_Witness ==
    /\ conn_executions = 2
    /\ conn_result # Nullopt
    /\ conn_result.call = "sendQuery"
    /\ conn_result.forwarded

(***************************************************************************)
(* C34.  After executeDeferredQuery both deferred slots are empty whether  *)
(* LocalConnection::sendQuery returned or threw, and when it threw the     *)
(* same exception leaves the call.                                         *)
(***************************************************************************)
C34_SlotsEmptyAfterExecution ==
    (conn_result # Nullopt /\ conn_result.forwarded) =>
        /\ send_query_parameters = Nullopt
        /\ external_tables_data = Nullopt
        /\ conn_result.rethrown = last_execution.threw

(* An execution that threw, in the engine and in a pipe.                   *)
C34_Witness ==
    /\ conn_result # Nullopt
    /\ conn_result.forwarded
    /\ conn_result.rethrown = "query_exception"
    /\ conn_executions = 2

(***************************************************************************)
(* C35.  The engine never executes stale deferred parameters: every        *)
(* execution uses the query text of the most recent sendQuery, which is    *)
(* the one of the invocation the execution happens in, and the external    *)
(* tables of the same invocation, also after an invocation that stored its *)
(* query and failed before sendExternalTablesData.                         *)
(***************************************************************************)
C35_NoStaleParameters ==
    last_execution # Nullopt =>
        /\ last_execution.query_inv = last_execution.at_inv
        /\ last_execution.tables_inv = last_execution.at_inv

(* The first execution is the one of the third invocation: the two before  *)
(* it stored their query and failed.                                       *)
C35_Witness ==
    /\ last_execution # Nullopt
    /\ conn_executions = 1
    /\ q_calls = 3
    /\ last_execution.at_inv = 3

(***************************************************************************)
(* C36.  readImpl is single-shot: a call made without a read buffer, and   *)
(* every call after the first one made with a buffer, returns an empty     *)
(* Block and takes nothing from the buffer.                                *)
(***************************************************************************)
C36_ReadImplSingleShot ==
    [][(r_calls' = r_calls + 1 /\ (buffer = Nullopt \/ r_buffer_calls > 0))
           => /\ r_block' = EmptyBlock
              /\ messages' = messages
              /\ r_reads' = r_reads
              /\ r_tracker' = <<>>]_vars

(* A second call with a buffer that still holds a message returned an      *)
(* empty Block.                                                            *)
C36_Witness ==
    /\ r_buffer_calls = 2
    /\ r_reads = 1
    /\ messages # <<>>
    /\ r_block = EmptyBlock

RECURSIVE C37_Rows(_)
C37_Rows(read) ==
    IF read = <<>> THEN 0 ELSE read[1].rows + C37_Rows(Tail(read))

(***************************************************************************)
(* C37.  When readImpl returns a Block after reading messages: the Block   *)
(* is empty exactly when the messages gave no row; otherwise its data      *)
(* columns have the rows of all messages read, each of the five virtual    *)
(* columns has as many rows, and the ack tracker was updated once with     *)
(* (delivery_tag, channel_id) for every message that gave rows and for no  *)
(* other message.                                                          *)
(***************************************************************************)
C37_VirtualColumnsMatchRows ==
    [][(r_calls' = r_calls + 1 /\ r_block' # ReadThrown
            /\ buffer # Nullopt /\ r_buffer_calls = 0)
           => LET read == SubSeq(messages, 1, r_reads' - r_reads)
                  with_rows == {i \in 1..Len(read) : read[i].rows > 0}
              IN  /\ (r_block' = EmptyBlock) = (C37_Rows(read) = 0)
                  /\ r_block' # EmptyBlock =>
                         /\ r_block'.rows = C37_Rows(read)
                         /\ DOMAIN r_block'.virtual_columns = VirtualNames
                         /\ \A name \in VirtualNames :
                                Len(r_block'.virtual_columns[name])
                                    = r_block'.rows
                  /\ Len(r_tracker') = Cardinality(with_rows)
                  /\ \A i \in with_rows :
                         Cardinality({j \in 1..Len(r_tracker') :
                             r_tracker'[j] = <<read[i].delivery_tag,
                                               buffer.channel_id>>}) = 1]_vars

(* A Block of three rows from two messages.                                *)
C37_Witness ==
    /\ r_block # Nullopt
    /\ r_block.rows = 3
    /\ Len(r_tracker) = 2
    /\ r_reads = 2

(***************************************************************************)
(* C38.  A read buffer taken by readPrefixImpl is given back to the        *)
(* storage exactly once, by the destructor; a stream that got no buffer    *)
(* pushes nothing back; and sendAck returns false without acknowledging    *)
(* when there is no buffer or the channel of the buffer is not usable.     *)
(***************************************************************************)
C38_BufferReturnedOnce ==
    /\ r_pops = (IF buffer = Nullopt THEN 0 ELSE 1)
    /\ r_pushes = (IF rpc = "destroyed" THEN r_pops ELSE 0)
    /\ buffer # Nullopt =>
           ((buffer.channel_id \in pool) = (rpc = "destroyed"))
    /\ (r_ack # Nullopt /\ (~r_ack.had_buffer \/ ~r_ack.usable)) =>
           /\ ~r_ack.returned
           /\ ~r_ack.acknowledged

(* The second stream of the storage gave its buffer back, after a sendAck  *)
(* on a channel that was not usable.                                       *)
C38_Witness ==
    /\ rpc = "destroyed"
    /\ r_streams = 2
    /\ r_pushes = 1
    /\ r_ack # Nullopt
    /\ r_ack.had_buffer
    /\ ~r_ack.usable

====
